---- MODULE Spec2Model ----
(***************************************************************************)
(* A model of the elementpath XPath engine: the dynamic context with its   *)
(* axis iterators (xpath_context.py), the node tree builders               *)
(* (tree_builders.py) and the XPath 2.0 operators built on them            *)
(* (xpath2/_xpath2_operators.py).                                          *)
(***************************************************************************)
EXTENDS Integers, Sequences, FiniteSets, TLC

VARIABLES
    ctx,     \* the dynamic context the axis iterators run on
    gens,    \* the suspended generators on ctx, innermost last
    event,   \* what the last pull on a generator did
    heap,    \* context objects, by reference (copy semantics)
    dicts,   \* the variables mappings of the context objects, by reference
    lastOp,  \* the last operation on the heap and the object it wrote through
    bld,     \* the state of a running tree build
    prd,     \* the state of a running for/some/every expression
    evl,     \* the last evaluation of an operator: its operands and its outcome
    sch,     \* the state of a running schema tree build
    cnt      \* the identity counters of a validation and their last call

vars == <<ctx, gens, event, heap, dicts, lastOp, bld, prd, evl, sch, cnt>>

(***************************************************************************)
(* The node model.  Nodes are identified by small integers; the trees are  *)
(* immutable after construction.                                           *)
(*   1..9   a document: a comment, the root element and a processing       *)
(*          instruction under the document node                           *)
(*   10..12 an element tree with a dummy document (not the root's parent)  *)
(*   13..19 a schema tree with an element and an attribute wildcard       *)
(***************************************************************************)
NoNode == 0
Atom == 99

Nodes == 1..19

Kind == <<"document", "comment", "element", "attribute", "text", "element",
          "element", "element", "pi",
          "document", "element", "element",
          "element", "element", "element", "element", "element",
          "attribute", "attribute">>

Parent == <<0, 1, 1, 3, 3, 3, 6, 3, 1,
            0, 0, 11,
            0, 13, 13, 15, 15, 13, 15>>

Children == << <<2, 3, 9>>, <<>>, <<5, 6, 8>>, <<>>, <<>>, <<7>>, <<>>, <<>>, <<>>,
               <<11>>, <<12>>, <<>>,
               <<14, 15>>, <<>>, <<16, 17>>, <<>>, <<>>, <<>>, <<>> >>

Attributes == << <<>>, <<>>, <<4>>, <<>>, <<>>, <<>>, <<>>, <<>>, <<>>,
                 <<>>, <<>>, <<>>,
                 <<18>>, <<>>, <<19>>, <<>>, <<>>, <<>>, <<>> >>

\* the empty name is the name of a schema wildcard
Name == <<"", "", "a", "x", "", "b", "a", "a", "",
          "", "a", "b",
          "s", "a", "b", "", "a", "x", "">>

Pos == <<1, 2, 3, 4, 5, 6, 7, 8, 9,
         0, 1, 3,
         1, 3, 5, 7, 9, 2, 6>>

IsNode(i) == i \in Nodes
IsElement(i) == IsNode(i) /\ Kind[i] = "element"
IsDocument(i) == IsNode(i) /\ Kind[i] = "document"
IsAttribute(i) == IsNode(i) /\ Kind[i] = "attribute"

\* node.match_name(name) of an element or attribute node: equal names; a
\* schema wildcard (no name) matches every name
MatchName(n, name) ==
    (IsElement(n) \/ IsAttribute(n)) /\ (Name[n] = name \/ Name[n] = "")

RECURSIVE DescOf(_)
RECURSIVE DescOfList(_)
\* node.iter_descendants(): the node and its subtree in document order,
\* attributes left out
DescOf(n) == <<n>> \o DescOfList(Children[n])
DescOfList(s) == IF s = <<>> THEN <<>> ELSE DescOf(Head(s)) \o DescOfList(Tail(s))

NodeDescendants(n, with_self) == IF with_self THEN DescOf(n) ELSE Tail(DescOf(n))

SeqSet(s) == {s[i] : i \in 1..Len(s)}

RECURSIVE SelectSeq2(_, _)
\* the subsequence of s of the elements in the set keep
SelectSeq2(s, keep) ==
    IF s = <<>> THEN <<>>
    ELSE IF Head(s) \in keep THEN <<Head(s)>> \o SelectSeq2(Tail(s), keep)
    ELSE SelectSeq2(Tail(s), keep)

NotReversed(s) == s

Reverse(s) == [i \in 1..Len(s) |-> s[Len(s) + 1 - i]]

(***************************************************************************)
(* The dynamic context (XPathContext, XPathSchemaContext) and its axis     *)
(* iterators.  A generator is modelled by the plan its code fixes when it  *)
(* is first pulled: the values it will yield, whether it assigns each to   *)
(* self.item, the axis tag it sets, and the fields it restores from its    *)
(* saved status when it is exhausted.                                      *)
(***************************************************************************)
Focus(c) == [item |-> c.item, size |-> c.size, position |-> c.position, axis |-> c.axis]

Plan(todo, setItem, axis, restore, mode) ==
    [todo |-> todo, setItem |-> setItem, axis |-> axis, restore |-> restore, mode |-> mode]

\* a generator whose guards fail: it yields nothing and writes nothing
NoPlan == Plan(<<>>, FALSE, "keep", {}, "plain")

NoStopRule(c) == TRUE

\* the stop rule of the reverse axes for non-rooted fragments
NotAtFragmentRoot(c) == c.document # NoNode \/ c.item # c.root

iter_self_untagged(c) == Plan(<<c.item>>, FALSE, "keep", {}, "plain")

iter_self(c) ==
    IF c.item # NoNode
    THEN Plan(<<c.item>>, FALSE, "self", {"axis"}, "plain")
    ELSE NoPlan

iter_attributes(c) ==
    IF IsAttribute(c.item)
    THEN Plan(<<c.item>>, FALSE, "attribute", {"axis"}, "plain")
    ELSE IF IsElement(c.item)
    THEN Plan(Attributes[c.item], TRUE, "attribute", {"item", "axis"}, "plain")
    ELSE NoPlan

iter_children_or_self(c) ==
    IF c.item = NoNode THEN NoPlan
    ELSE IF c.axis # "none"
    THEN Plan(<<c.item>>, FALSE, "keep", {}, "plain")
    ELSE IF IsElement(c.item) \/ IsDocument(c.item)
    THEN IF c.item = c.document /\ c.root # c.document
         THEN Plan(IF c.root # NoNode THEN <<c.root>> ELSE <<>>,
                   FALSE, "child", {"item", "axis"}, "plain")
         ELSE Plan(Children[c.item], TRUE, "child", {"item", "axis"}, "plain")
    ELSE NoPlan

RECURSIVE Matching(_, _)
\* the nodes of s that match the name, in order
Matching(s, name) ==
    IF s = <<>> THEN <<>>
    ELSE IF MatchName(Head(s), name) THEN <<Head(s)>> \o Matching(Tail(s), name)
    ELSE Matching(Tail(s), name)

\* XPathContext.iter_matching_nodes
iter_matching_nodes_base(c, name) ==
    IF c.axis # "none"
    THEN IF (IsAttribute(c.item) \/ IsElement(c.item)) /\ MatchName(c.item, name)
         THEN Plan(<<c.item>>, FALSE, "keep", {}, "plain")
         ELSE NoPlan
    ELSE IF IsElement(c.item) \/ IsDocument(c.item)
    THEN IF c.item = c.document /\ IsElement(c.root)
         THEN Plan(IF MatchName(c.root, name) THEN <<c.root>> ELSE <<>>,
                   FALSE, "child", {"item", "axis"}, "plain")
         ELSE Plan(Matching(Children[c.item], name), TRUE, "child",
                   {"item", "axis"}, "plain")
    ELSE NoPlan

\* the first node of s matching the name, or else the node given
FirstMatch(s, name, else) ==
    IF Matching(s, name) = <<>> THEN else ELSE Head(Matching(s, name))

\* a matching nameless node is replaced by the matching node of the root
ResolveElement(c, n, name) ==
    IF Name[n] = "" THEN FirstMatch(Children[c.root], name, n) ELSE n

ResolveAttribute(c, n, name) ==
    IF Name[n] = "" THEN FirstMatch(Attributes[c.root], name, n) ELSE n

\* XPathSchemaContext.iter_matching_nodes
iter_matching_nodes_schema(c, name) ==
    IF c.axis # "none"
    THEN IF (IsAttribute(c.item) \/ IsElement(c.item)) /\ MatchName(c.item, name)
         THEN Plan(<<IF IsElement(c.item) THEN ResolveElement(c, c.item, name)
                     ELSE ResolveAttribute(c, c.item, name)>>,
                   TRUE, "keep", {}, "plain")
         ELSE NoPlan
    ELSE IF IsElement(c.item)
    THEN LET m == Matching(Children[c.item], name)
         IN  Plan([i \in 1..Len(m) |-> ResolveElement(c, m[i], name)],
                  TRUE, "child", {"item", "axis"}, "plain")
    ELSE NoPlan

iter_matching_nodes(c, name) ==
    IF c.schema THEN iter_matching_nodes_schema(c, name)
    ELSE iter_matching_nodes_base(c, name)

iter_parent(c) ==
    IF IsNode(c.item) /\ NotAtFragmentRoot(c) /\ Parent[c.item] # NoNode
    THEN Plan(<<Parent[c.item]>>, TRUE, "parent", {"item", "axis"}, "plain")
    ELSE NoPlan

RECURSIVE Before(_, _)
\* the elements of s before the first occurrence of x (all of s without one)
Before(s, x) ==
    IF s = <<>> \/ Head(s) = x THEN <<>> ELSE <<Head(s)>> \o Before(Tail(s), x)

RECURSIVE After(_, _)
\* the elements of s after the first occurrence of x (none without one)
After(s, x) ==
    IF s = <<>> THEN <<>> ELSE IF Head(s) = x THEN Tail(s) ELSE After(Tail(s), x)

iter_siblings(c, axis) ==
    IF IsNode(c.item) /\ NotAtFragmentRoot(c) /\ Parent[c.item] # NoNode
    THEN Plan(IF axis = "preceding-sibling"
              THEN Before(Children[Parent[c.item]], c.item)
              ELSE After(Children[Parent[c.item]], c.item),
              TRUE, IF axis = "none" THEN "following-sibling" ELSE axis,
              {"item", "axis"}, "plain")
    ELSE NoPlan

iter_descendants(c, axis) ==
    IF IsDocument(c.item) \/ IsElement(c.item)
    THEN Plan(NodeDescendants(c.item, axis # "descendant"), TRUE, axis,
              {"item", "axis"}, "plain")
    ELSE IF axis # "descendant" /\ IsNode(c.item)
    THEN Plan(<<c.item>>, FALSE, axis, {"axis"}, "plain")
    ELSE NoPlan

RECURSIVE ParentChain(_, _)
\* the parents from p upwards, ending with the root of a fragment
ParentChain(c, p) ==
    IF p = NoNode THEN <<>>
    ELSE IF p = c.root /\ c.document = NoNode THEN <<p>>
    ELSE <<p>> \o ParentChain(c, Parent[p])

iter_ancestors(c, axis) ==
    IF IsNode(c.item)
    THEN LET self == IF axis = "ancestor-or-self" THEN <<c.item>> ELSE <<>>
             up == IF NotAtFragmentRoot(c) THEN ParentChain(c, Parent[c.item]) ELSE <<>>
         IN  Plan(Reverse(self \o up), TRUE,
                  IF axis = "none" THEN "ancestor" ELSE axis,
                  {"item", "axis"}, "plain")
    ELSE NoPlan

RECURSIVE PrecedingChain(_, _)
\* the ancestors collected by iter_preceding, from the parent upwards
PrecedingChain(c, r) ==
    IF Parent[r] = NoNode \/ (r = c.root /\ c.document = NoNode) THEN <<r>>
    ELSE <<r>> \o PrecedingChain(c, Parent[r])

iter_preceding(c) ==
    IF IsNode(c.item) /\ NotAtFragmentRoot(c) /\ Parent[c.item] # NoNode
    THEN LET chain == PrecedingChain(c, Parent[c.item])
             top == chain[Len(chain)]
             pre == Before(NodeDescendants(top, TRUE), c.item)
         IN  Plan(SelectSeq2(pre, SeqSet(pre) \ SeqSet(chain)), TRUE, "preceding",
                  {"item", "axis"}, "plain")
    ELSE NoPlan

RECURSIVE FollowingRoot(_, _)
FollowingRoot(c, r) ==
    IF Parent[r] # NoNode /\ IsElement(Parent[r]) /\ r # c.root
    THEN FollowingRoot(c, Parent[r]) ELSE r

iter_followings(c) ==
    IF IsElement(c.item)
    THEN LET descendants == SeqSet(NodeDescendants(c.item, TRUE))
             all == NodeDescendants(FollowingRoot(c, c.item), FALSE)
         IN  Plan(SelectSeq2(all, {x \in SeqSet(all) :
                                     Pos[c.item] < Pos[x] /\ x \notin descendants}),
                  TRUE, "following", {"item", "axis"}, "plain")
    ELSE NoPlan

\* results is token.select(copy(self)) as a list; reverse says that the token
\* is a reverse axis
inner_focus_select(c, results, reverse) ==
    Plan(results, TRUE, "none", {"item", "size", "position", "axis"},
         IF reverse THEN "rev" ELSE "fwd")

(***************************************************************************)
(* Running the generators on the context.                                  *)
(***************************************************************************)
MaxDepth == 2

AxisArgs == {"none", "child"}
StepNames == {"a", "b"}
SiblingAxes == {"none", "following-sibling", "preceding-sibling"}
DescendantAxes == {"none", "descendant", "descendant-or-self"}
AncestorAxes == {"none", "ancestor", "ancestor-or-self"}
TokenResults == {<<>>, <<Atom>>, <<6, 8>>}

\* the contexts XPathContext.__init__ and XPathSchemaContext build on the trees
\* of the node model: root, document and the items of the tree
Contexts ==
    {[root |-> 1, document |-> 1, schema |-> FALSE, item |-> i] : i \in {1, 3, 4, 5, 8}}
    \cup {[root |-> 6, document |-> NoNode, schema |-> FALSE, item |-> i] : i \in {6, 7}}
    \cup {[root |-> 11, document |-> 10, schema |-> FALSE, item |-> i] : i \in {10, 11}}
    \cup {[root |-> 13, document |-> NoNode, schema |-> TRUE, item |-> i] : i \in {15, 16, 19}}
    \cup {[root |-> 1, document |-> 1, schema |-> FALSE, item |-> Atom]}

NoEvent ==
    [type |-> "none", gen |-> "", axis |-> "", before |-> <<>>, value |-> NoNode,
     last |-> NoNode, unwinding |-> FALSE, abandoned |-> FALSE]

\* the code before the loop of a generator
Enter(c, plan) ==
    LET c1 == IF plan.axis = "keep" THEN c ELSE [c EXCEPT !.axis = plan.axis]
    IN  IF plan.mode = "rev"
        THEN [c1 EXCEPT !.size = Len(plan.todo), !.position = Len(plan.todo)]
        ELSE IF plan.mode = "fwd" THEN [c1 EXCEPT !.size = Len(plan.todo)]
        ELSE c1

\* the loop's assignments before it yields value as its k-th value
Yield(c, f, value, k) ==
    LET c1 == IF f.setItem THEN [c EXCEPT !.item = value] ELSE c
    IN  IF f.mode = "fwd" THEN [c1 EXCEPT !.position = k] ELSE c1

\* the code a generator runs when it is resumed, before the loop goes on
Resumed(c, f) ==
    IF f.mode = "rev" THEN [c EXCEPT !.position = @ - 1] ELSE c

\* the code after the loop: the saved status is written back
Restore(c, f) ==
    [c EXCEPT !.item = IF "item" \in f.restore THEN f.status.item ELSE @,
              !.size = IF "size" \in f.restore THEN f.status.size ELSE @,
              !.position = IF "position" \in f.restore THEN f.status.position ELSE @,
              !.axis = IF "axis" \in f.restore THEN f.status.axis ELSE @]

Frame(gen, plan, status) ==
    [gen |-> gen, axis |-> plan.axis, todo |-> plan.todo, setItem |-> plan.setItem,
     mode |-> plan.mode, restore |-> plan.restore, status |-> status, k |-> 0,
     last |-> NoNode]

\* the first pull on a new generator of ctx: it runs to its first yield, or to
\* its end.  A consumer starts a generator on the context it was handed, or
\* inside the loop over an enclosing one, before any of them has ended.
Begin(gen, plan) ==
    /\ Len(gens) < MaxDepth
    /\ ~event.unwinding
    /\ \E p \in {plan} : \E f \in {Frame(gen, p, Focus(ctx))} :
       \E c1 \in {Enter(ctx, p)} :
           IF p.todo = <<>>
           THEN /\ ctx' = Restore(c1, f)
                /\ gens' = gens
                /\ event' = [type |-> "exhausted", gen |-> gen, axis |-> f.axis,
                             before |-> f.status, value |-> NoNode, last |-> f.last,
                             unwinding |-> TRUE, abandoned |-> event.abandoned]
           ELSE /\ ctx' = Yield(c1, f, Head(p.todo), 1)
                /\ gens' = Append(gens, [f EXCEPT !.todo = Tail(p.todo), !.k = 1,
                                                  !.last = Head(p.todo)])
                /\ event' = [type |-> "yield", gen |-> gen, axis |-> f.axis,
                             before |-> f.status, value |-> Head(p.todo),
                             last |-> f.last, unwinding |-> FALSE,
                             abandoned |-> event.abandoned]
    /\ UNCHANGED <<heap, dicts, lastOp, bld, prd, evl, sch, cnt>>

IterSelf == Begin("iter_self", iter_self(ctx))
IterAttributes == Begin("iter_attributes", iter_attributes(ctx))
IterChildrenOrSelf == Begin("iter_children_or_self", iter_children_or_self(ctx))
IterMatchingNodes ==
    \E name \in StepNames : Begin("iter_matching_nodes", iter_matching_nodes(ctx, name))
IterParent == Begin("iter_parent", iter_parent(ctx))
IterSiblings == \E axis \in SiblingAxes : Begin("iter_siblings", iter_siblings(ctx, axis))
IterDescendants ==
    \E axis \in DescendantAxes : Begin("iter_descendants", iter_descendants(ctx, axis))
IterAncestors ==
    \E axis \in AncestorAxes : Begin("iter_ancestors", iter_ancestors(ctx, axis))
IterPreceding == Begin("iter_preceding", iter_preceding(ctx))
IterFollowings == Begin("iter_followings", iter_followings(ctx))
InnerFocusSelect ==
    \E results \in TokenResults, reverse \in BOOLEAN :
        Begin("inner_focus_select", inner_focus_select(ctx, results, reverse))

\* the consumer pulls the next value from the innermost suspended generator
Pull ==
    /\ gens # <<>>
    /\ \E f \in {gens[Len(gens)]} : \E c1 \in {Resumed(ctx, f)} :
           IF f.todo = <<>>
           THEN /\ ctx' = Restore(c1, f)
                /\ gens' = SubSeq(gens, 1, Len(gens) - 1)
                /\ event' = [type |-> "exhausted", gen |-> f.gen, axis |-> f.axis,
                             before |-> f.status, value |-> NoNode, last |-> f.last,
                             unwinding |-> TRUE, abandoned |-> event.abandoned]
           ELSE /\ ctx' = Yield(c1, f, Head(f.todo), f.k + 1)
                /\ gens' = [gens EXCEPT ![Len(gens)] =
                                [f EXCEPT !.todo = Tail(f.todo), !.k = f.k + 1,
                                          !.last = Head(f.todo)]]
                /\ event' = [type |-> "yield", gen |-> f.gen, axis |-> f.axis,
                             before |-> f.status, value |-> Head(f.todo),
                             last |-> f.last, unwinding |-> event.unwinding,
                             abandoned |-> event.abandoned]
    /\ UNCHANGED <<heap, dicts, lastOp, bld, prd, evl, sch, cnt>>

\* the consumer drops the innermost suspended generator: the generator is
\* closed at its yield and the code after the yield never runs
Close ==
    /\ gens # <<>>
    /\ \E f \in {gens[Len(gens)]} :
           /\ gens' = SubSeq(gens, 1, Len(gens) - 1)
           /\ event' = [type |-> "closed", gen |-> f.gen, axis |-> f.axis,
                        before |-> f.status, value |-> NoNode, last |-> f.last,
                        unwinding |-> TRUE, abandoned |-> TRUE]
    /\ UNCHANGED <<ctx, heap, dicts, lastOp, bld, prd, evl, sch, cnt>>

IdleCopy == heap = <<>> /\ dicts = <<>> /\ lastOp = <<>>
IdleBuild == bld = <<>>
IdleProduct == prd = <<>>
IdleEval == evl = <<>>
IdleSchema == sch = <<>>
IdleCounter == cnt = <<>>
IdleAxis == ctx = <<>> /\ gens = <<>> /\ event = NoEvent

InitAxis ==
    /\ \E c \in Contexts, axis \in AxisArgs :
           ctx = [root |-> c.root, document |-> c.document, schema |-> c.schema,
                  item |-> c.item, size |-> 1, position |-> 1, axis |-> axis]
    /\ gens = <<>>
    /\ event = NoEvent
    /\ IdleCopy /\ IdleBuild /\ IdleProduct /\ IdleEval
    /\ IdleSchema /\ IdleCounter

NextAxis ==
    \/ IterSelf
    \/ IterAttributes
    \/ IterChildrenOrSelf
    \/ IterMatchingNodes
    \/ IterParent
    \/ IterSiblings
    \/ IterDescendants
    \/ IterAncestors
    \/ IterPreceding
    \/ IterFollowings
    \/ InnerFocusSelect
    \/ Pull
    \/ Close

SpecAxis == InitAxis /\ [][NextAxis]_vars

(***************************************************************************)
(* Claims about the axis iterators.                                        *)
(***************************************************************************)

\* C1: when a consumer has pulled at least one value from an axis iterator and
\* then abandons it before exhaustion, the context's item, position, size and
\* axis are back at the values they had before the iteration started.
C1_RestoredOnAbandon ==
    event.type = "closed" => Focus(ctx) = event.before

\* C2: when an axis iterator is drained to exhaustion, the context's item,
\* position, size and axis after the last pull equal their values before the
\* first pull, also when the iterators are nested (every inner one drained
\* while the outer one is suspended).
C2_RestoredOnExhaustion ==
    (event.type = "exhausted" /\ ~event.abandoned) => Focus(ctx) = event.before

\* the iterators of the forward axes and of the reverse axes
ForwardAxis ==
    \/ event.gen \in {"iter_attributes", "iter_children_or_self", "iter_descendants",
                      "iter_followings"}
    \/ event.gen = "iter_siblings" /\ event.axis = "following-sibling"

ReverseAxis ==
    \/ event.gen \in {"iter_ancestors", "iter_preceding"}
    \/ event.gen = "iter_siblings" /\ event.axis = "preceding-sibling"

\* an axis iterator yields a node after another node
NextNode ==
    event.type = "yield" /\ event.last # NoNode /\ (ForwardAxis \/ ReverseAxis)

\* C19 (as amended): each axis iterator, of a forward axis (child,
\* descendant, descendant-or-self, following, following-sibling, attribute)
\* and of a reverse axis (ancestor, ancestor-or-self, preceding,
\* preceding-sibling) alike, yields its nodes in ascending position
\* (document order).
C19_AxesInDocumentOrder ==
    NextNode => Pos[event.last] < Pos[event.value]

\* the ancestor axis has yielded its second node
C19_Witness ==
    /\ NextNode /\ event.gen = "iter_ancestors" /\ event.axis = "ancestor"
    /\ event.last = 1 /\ event.value = 3

\* C19 (as claimed): each forward-axis iterator yields its nodes in
\* ascending position, each reverse-axis iterator in descending position.
C19_ReverseAxesDescend ==
    NextNode =>
        IF ForwardAxis THEN Pos[event.last] < Pos[event.value]
        ELSE Pos[event.last] > Pos[event.value]

\* C20: the self axis over a context whose item is X yields exactly one
\* value, X itself, with the axis tag 'self' while the consumer holds that
\* value, and the axis tag is back at its prior value once the iterator is
\* exhausted.
C20_SelfAxisYieldsItem ==
    /\ (event.type = "yield" /\ event.gen = "iter_self") =>
           /\ event.value = event.before.item /\ event.last = NoNode
           /\ ctx.axis = "self" /\ ctx.item = event.value
           /\ gens[Len(gens)].todo = <<>>
    /\ (event.type = "exhausted" /\ event.gen = "iter_self") =>
           /\ event.last = event.before.item
           /\ ctx.axis = event.before.axis

\* the self axis was drained on a context with another axis tag
C20_Witness ==
    /\ event.type = "exhausted" /\ event.gen = "iter_self"
    /\ event.before.axis = "child" /\ event.last = 3 /\ ctx.axis = "child"

\* inner_focus_select has just yielded its k-th value of n
InnerFocusYield ==
    /\ event.type = "yield"
    /\ event.gen = "inner_focus_select"

YieldIndex == gens[Len(gens)].k
ResultCount == gens[Len(gens)].k + Len(gens[Len(gens)].todo)

InnerFocus ==
    /\ ctx.item = event.value
    /\ ctx.size = ResultCount
    /\ ctx.axis = "none"
    /\ ctx.position = IF gens[Len(gens)].mode = "rev"
                      THEN ResultCount - YieldIndex + 1
                      ELSE YieldIndex

\* C24: at the k-th value inner_focus_select yields of n results, the
\* context's item is that value, its size is n, its axis is None, and its
\* position is k for a forward token and n - k + 1 for a reverse one.
C24_InnerFocusAtEachYield == InnerFocusYield => InnerFocus

\* the same, as long as no generator was abandoned on the context
InnerFocusUndisturbed == (InnerFocusYield /\ ~event.abandoned) => InnerFocus

\* the nodes an axis iterator yields from the context c
Yielded(plan) == SeqSet(plan.todo)

\* the document, element, text, comment and processing instruction nodes of
\* the tree under the document node
TreeNodes(document) == SeqSet(DescOf(document))

\* the following axis has been drained from an element of a document tree,
\* by a consumer that abandoned nothing
FollowingDrained ==
    /\ event.type = "exhausted" /\ event.gen = "iter_followings"
    /\ gens = <<>> /\ ~event.abandoned
    /\ IsElement(ctx.item) /\ ctx.document # NoNode
    /\ ctx.document \in SeqSet(ParentChain(ctx, Parent[ctx.item]))

AxisParts(c) ==
    <<Yielded(iter_ancestors(c, "ancestor")), Yielded(iter_descendants(c, "descendant")),
      Yielded(iter_followings(c)), Yielded(iter_preceding(c)), {c.item}>>

\* C28: from an element of a document tree the ancestor, descendant,
\* following and preceding axes and the element itself are pairwise disjoint
\* and cover the document, element, text, comment and processing instruction
\* nodes of the tree.
C28_AxesPartitionTree ==
    FollowingDrained =>
        LET parts == AxisParts(ctx)
        IN  /\ \A i, j \in 1..5 : i # j => parts[i] \cap parts[j] = {}
            /\ UNION {parts[i] : i \in 1..5} = TreeNodes(ctx.document)

\* the subtree rooted at r: its descendants and their attributes
Subtree(r) ==
    SeqSet(DescOf(r)) \cup UNION {SeqSet(Attributes[n]) : n \in SeqSet(DescOf(r))}

\* the context is a fragment: a root and no document
IsFragment == ctx.root # NoNode /\ ctx.document = NoNode

\* an axis iterator, started on an item of the fragment, has yielded a node
FragmentYield ==
    /\ IsFragment
    /\ event.type = "yield" /\ event.gen # "inner_focus_select"
    /\ event.before.item \in Subtree(ctx.root)

\* C29: in a fragment no axis yields a node outside the subtree of the
\* context's root, from any item of the subtree; from the root itself the
\* parent, preceding and sibling axes yield nothing and the ancestor axes
\* yield the root at most.
C29_AxesStayInFragment ==
    FragmentYield =>
        /\ event.value \in Subtree(ctx.root)
        /\ event.before.item = ctx.root =>
               /\ event.gen \notin {"iter_parent", "iter_preceding", "iter_siblings"}
               /\ event.gen = "iter_ancestors" =>
                      event.axis = "ancestor-or-self" /\ event.value = ctx.root

\* the ancestor axis from a child of the root, whose root has a parent in a
\* larger tree, has stopped at the root
C29_Witness ==
    /\ IsFragment
    /\ Parent[ctx.root] # NoNode
    /\ event.type = "exhausted" /\ event.gen = "iter_ancestors"
    /\ event.before.item = 7 /\ event.last = ctx.root
    /\ ~event.abandoned

\* the sets C28 speaks of are pairwise disjoint
AxesDisjoint ==
    FollowingDrained =>
        LET parts == AxisParts(ctx)
        IN  \A i, j \in 1..5 : i # j => parts[i] \cap parts[j] = {}

(***************************************************************************)
(* Copies of a context.  Context objects and their variables mappings live *)
(* in heaps and are held by reference, so that sharing and copying differ. *)
(***************************************************************************)
MaxObjects == 3

VarNames == {"x"}
VarValues == {1, 2}
FocusItems == {3, 6}

\* the object copy(c) returns; ref is the fresh mapping {k: v for k, v in
\* c.variables.items()} the constructor call allocates
ContextCopyShared(c, ref) ==
    [document |-> c.document, root |-> c.root, item |-> c.item, size |-> c.size,
     position |-> c.position, axis |-> "none", variables |-> c.variables]

ContextCopyNoPosition(c, ref) ==
    [document |-> c.document, root |-> c.root, item |-> c.item, size |-> c.size,
     position |-> 1, axis |-> "none", variables |-> ref]

ContextCopy(c, ref) ==
    [document |-> c.document, root |-> c.root, item |-> c.item, size |-> c.size,
     position |-> c.position, axis |-> "none", variables |-> ref]

\* the variables mapping of context object i, read through its reference
VariablesOf(i) == dicts[heap[i].variables]

Bound(d, name, value) == [n \in DOMAIN d \cup {name} |-> IF n = name THEN value ELSE d[n]]

Unbound(d, name) == [n \in DOMAIN d \ {name} |-> d[n]]

\* copy(context)
CopyContext ==
    /\ heap # <<>>
    /\ Len(heap) < MaxObjects
    /\ \E i \in 1..Len(heap) :
           /\ dicts' = Append(dicts, VariablesOf(i))
           /\ heap' = Append(heap, ContextCopy(heap[i], Len(dicts) + 1))
           /\ lastOp' = [op |-> "copy", target |-> Len(heap) + 1, origin |-> i,
                         second |-> 0]
    /\ UNCHANGED <<ctx, gens, event, bld, prd, evl, sch, cnt>>

\* context.variables[name] = value
BindVariable ==
    /\ heap # <<>>
    /\ \E i \in 1..Len(heap), name \in VarNames, value \in VarValues :
           /\ dicts' = [dicts EXCEPT ![heap[i].variables] = Bound(@, name, value)]
           /\ lastOp' = [op |-> "bind", target |-> i, origin |-> i, second |-> 0]
    /\ UNCHANGED <<ctx, gens, event, heap, bld, prd, evl, sch, cnt>>

\* del context.variables[name]
RemoveVariable ==
    /\ heap # <<>>
    /\ \E i \in 1..Len(heap) : \E name \in DOMAIN VariablesOf(i) :
           /\ dicts' = [dicts EXCEPT ![heap[i].variables] = Unbound(@, name)]
           /\ lastOp' = [op |-> "remove", target |-> i, origin |-> i, second |-> 0]
    /\ UNCHANGED <<ctx, gens, event, heap, bld, prd, evl, sch, cnt>>

\* an axis iterator running on context i moves its focus
MoveFocus ==
    /\ heap # <<>>
    /\ \E i \in 1..Len(heap), item \in FocusItems :
           /\ heap' = [heap EXCEPT ![i].item = item, ![i].axis = "child"]
           /\ lastOp' = [op |-> "focus", target |-> i, origin |-> i, second |-> 0]
    /\ UNCHANGED <<ctx, gens, event, dicts, bld, prd, evl, sch, cnt>>

\* a value comparison: each operand is evaluated on its own copy(context);
\* the evaluation of the first operand binds a variable and moves the focus of
\* the context it was given before the second copy is made
ValueComparison ==
    /\ heap # <<>>
    /\ Len(heap) + 2 <= MaxObjects
    /\ \E i \in 1..Len(heap), name \in VarNames, value \in VarValues, item \in FocusItems :
           LET c0 == ContextCopy(heap[i], Len(dicts) + 1)
               h0 == Append(heap, [c0 EXCEPT !.item = item, !.axis = "child"])
               d0 == Append(dicts, VariablesOf(i))
               d1 == [d0 EXCEPT ![c0.variables] = Bound(@, name, value)]
               c1 == ContextCopy(h0[i], Len(d1) + 1)
           IN  /\ dicts' = Append(d1, d1[h0[i].variables])
               /\ heap' = Append(h0, c1)
               /\ lastOp' = [op |-> "compare", target |-> Len(heap) + 1, origin |-> i,
                             second |-> Len(heap) + 2]
    /\ UNCHANGED <<ctx, gens, event, bld, prd, evl, sch, cnt>>

InitCopy ==
    /\ \E axis \in {"none", "self"}, d \in {<<>>, [n \in {"x"} |-> 1]} :
           /\ heap = <<[document |-> 1, root |-> 1, item |-> 3, size |-> 2,
                        position |-> 2, axis |-> axis, variables |-> 1]>>
           /\ dicts = <<d>>
    /\ lastOp = [op |-> "init", target |-> 1, origin |-> 1, second |-> 0]
    /\ IdleAxis /\ IdleBuild /\ IdleProduct /\ IdleEval
    /\ IdleSchema /\ IdleCounter

NextCopy ==
    \/ CopyContext
    \/ BindVariable
    \/ RemoveVariable
    \/ MoveFocus
    \/ ValueComparison

SpecCopy == InitCopy /\ [][NextCopy]_vars

\* C3 (as amended): a shallow copy of a context has the same item, size and
\* position as the original at the moment of the copy; its axis is always
\* None, whatever the original's axis is.
C3_CopyKeepsItemSizePosition ==
    lastOp.op = "copy" =>
        /\ heap[lastOp.target].item = heap[lastOp.origin].item
        /\ heap[lastOp.target].size = heap[lastOp.origin].size
        /\ heap[lastOp.target].position = heap[lastOp.origin].position
        /\ heap[lastOp.target].axis = "none"

\* a copy has just been made of a context whose axis is set
C3_Witness ==
    /\ lastOp.op = "copy"
    /\ heap[lastOp.origin].axis # "none"
    /\ heap[lastOp.origin].position = 2

\* C3 (as claimed): a shallow copy of a context has the same item, size,
\* position and axis as the original at the moment of the copy, whatever the
\* original's axis is.
C3_CopyKeepsFocus ==
    lastOp.op = "copy" => Focus(heap[lastOp.target]) = Focus(heap[lastOp.origin])

\* the variables and the focus of the objects that exist before and after a step
ViewOf(i) == <<VariablesOf(i), Focus(heap[i])>>

\* C4: after copy(context), binding, rebinding or removing a variable in one
\* context's variables is never visible in the other's, nor is a focus
\* mutation; root and document are shared by reference; the second operand of
\* a value comparison sees the variables of the original context, not those
\* the first operand bound in its copy.
C4_CopiesIsolated ==
    [][/\ \A j \in 1..Len(heap) : j # lastOp'.target => ViewOf(j)' = ViewOf(j)
       /\ \A j \in 1..Len(heap') :
              /\ heap'[j].root = heap'[1].root
              /\ heap'[j].document = heap'[1].document
       /\ lastOp'.op = "compare" =>
              /\ dicts'[heap'[lastOp'.second].variables] = VariablesOf(lastOp'.origin)
              /\ heap'[lastOp'.second].item = heap[lastOp'.origin].item]_vars

\* a variable was bound in a copy while the original had it unbound or bound
\* to another value
C4_Witness ==
    /\ lastOp.op \in {"bind", "remove"}
    /\ Len(heap) >= 2
    /\ VariablesOf(lastOp.target) # VariablesOf(IF lastOp.target = 1 THEN 2 ELSE 1)

(***************************************************************************)
(* The node tree builders.  A source is an ElementTree or lxml tree over   *)
(* the elements 1..4 (1 the root element, 2 and 3 its children, 4 the      *)
(* child of 2), or an already built node.                                  *)
(***************************************************************************)
SrcChildren == << <<2, 3>>, <<4>>, <<>>, <<>> >>

\* the namespaces argument: None, {'xml': ...}, {'p': ...}
NamespaceArgs == {[len |-> 0, xml |-> FALSE], [len |-> 1, xml |-> TRUE],
                  [len |-> 1, xml |-> FALSE]}

\* the sources given to the builders
\*   variant  etree: xml.etree data; lxml: lxml data; built: an already built
\*            node; invalid: neither a document nor an element
\*   kind     element, document (with a root element) or empty (a document
\*            without a root element)
\*   instance whether is_etree_element_instance holds of the elements
\*   before, after: the comments and processing instructions beside an lxml root
Sources ==
    {[variant |-> "etree", kind |-> k, instance |-> inst, text |-> tx, tail |-> tl,
      tag3 |-> t3, attrs |-> at, ns |-> ns, before |-> 0, after |-> 0] :
        k \in {"element", "document", "empty"}, inst \in BOOLEAN,
        tx \in SUBSET {1, 2}, tl \in SUBSET {2, 3}, t3 \in {"element", "comment", "pi"},
        at \in {{}, {1}}, ns \in NamespaceArgs}
    \cup
    {[variant |-> "lxml", kind |-> k, instance |-> TRUE, text |-> tx, tail |-> tl,
      tag3 |-> "element", attrs |-> {}, ns |-> ns, before |-> bf, after |-> af] :
        k \in {"element", "document", "empty"},
        tx \in {{}, {1}}, tl \in {{}, {2, 3}},
        ns \in {[len |-> 0, xml |-> FALSE], [len |-> 1, xml |-> TRUE]},
        bf \in 0..1, af \in 0..1}
    \cup
    {[variant |-> "built", kind |-> k, instance |-> inst, text |-> {}, tail |-> {},
      tag3 |-> "element", attrs |-> {}, ns |-> [len |-> 0, xml |-> FALSE],
      before |-> 0, after |-> 0] :
        k \in {"element", "document"}, inst \in BOOLEAN}
    \cup
    {[variant |-> "invalid", kind |-> "element", instance |-> FALSE, text |-> {},
      tail |-> {}, tag3 |-> "element", attrs |-> {}, ns |-> [len |-> 0, xml |-> FALSE],
      before |-> 0, after |-> 0]}

Fragments == {"none", "true", "false"}

SrcTag(src, e) == IF e = 3 THEN src.tag3 ELSE "element"
SrcAttribs(src, e) == IF e \in src.attrs THEN 1 ELSE 0

\* position = 1
StartPositionTwo == 1 + 1

StartPosition == 1

NsPosOffsetDeclared(ns) == ns.len + 1

\* ns_pos_offset = len(namespaces) + int('xml' not in namespaces) + 1
NsPosOffset(ns) == ns.len + (IF ns.xml THEN 0 ELSE 1) + 1

\* the position step of lxml elements: len(nsmap) + len(attrib) + 1 or + 2
LxmlOffset(ns, attribs) == ns.len + attribs + (IF ns.xml THEN 1 ELSE 2)

\* position += 1 after a document, text, comment or processing instruction node
NextPositionSame(position) == position

NextPosition(position) == position + 1

\* XPathNode(..., parent, position): the node is appended to parent.children
NewNode(b, kind, role, parent, src, position) ==
    [b EXCEPT !.nodes = Append(@, [kind |-> kind, role |-> role, parent |-> parent,
                                   src |-> src, position |-> position])]

\* the last node created with the given parent: parent.children[-1]
LastChild(b, parent) ==
    CHOOSE i \in 1..Len(b.nodes) :
        /\ b.nodes[i].parent = parent
        /\ \A j \in (i + 1)..Len(b.nodes) : b.nodes[j].parent # parent

\* TextNode(text, parent, position); position += 1
AddText(b, present, role, parent, src) ==
    IF present
    THEN [NewNode(b, "text", role, parent, src, b.position)
             EXCEPT !.position = NextPosition(b.position)]
    ELSE b

\* an element child: the node, the step over its namespace and attribute
\* slots, and its text
AddElement(b, e, parent) ==
    LET b1 == NewNode(b, "element", "elem", parent, e, b.position)
        step == IF b.src.variant = "lxml"
                THEN LxmlOffset(b.src.ns, SrcAttribs(b.src, e))
                ELSE NsPosOffset(b.src.ns) + SrcAttribs(b.src, e)
        b2 == [b1 EXCEPT !.position = b.position + step]
    IN  AddText(b2, e \in b.src.text, "text", Len(b1.nodes), e)

\* a comment or processing instruction child
AddOther(b, e, parent) ==
    [NewNode(b, SrcTag(b.src, e), SrcTag(b.src, e), parent, e, b.position)
        EXCEPT !.position = NextPosition(b.position)]

\* root_node.get_document_node(): a document node whose child is the root node
GetDocumentNode(b, root) ==
    LET b1 == NewNode(b, "document", "wrapper", 0, 0, b.nodes[root].position - 1)
    IN  [b1 EXCEPT !.nodes[root].parent = Len(b1.nodes), !.result = Len(b1.nodes),
                   !.pc = "done"]

\* build_node_tree, the return statements of the loop
ReturnTreeNoWrapper(b) ==
    IF b.document_node # 0 THEN [b EXCEPT !.result = b.document_node, !.pc = "done"]
    ELSE [b EXCEPT !.result = b.root_node, !.pc = "done"]

ReturnTree(b) ==
    IF b.document_node # 0 THEN [b EXCEPT !.result = b.document_node, !.pc = "done"]
    ELSE IF b.fragment = "false" /\ b.src.instance THEN GetDocumentNode(b, b.root_node)
    ELSE [b EXCEPT !.result = b.root_node, !.pc = "done"]

\* build_lxml_node_tree, the return statements of the loop: the following
\* siblings of the root are added to the document
ReturnLxmlTree(b) ==
    IF b.document_node = 0 THEN [b EXCEPT !.result = b.root_node, !.pc = "done"]
    ELSE LET b1 == IF b.src.after = 1
                   THEN [NewNode(b, "pi", "after", b.document_node, 0, b.position)
                            EXCEPT !.position = NextPosition(b.position)]
                   ELSE b
         IN  [b1 EXCEPT !.result = b.document_node, !.pc = "done"]

\* one pass of the loop body of build_node_tree and build_lxml_node_tree
BuildStep(b) ==
    IF b.children # <<>>
    THEN LET e == Head(b.children)
             b1 == [b EXCEPT !.children = Tail(b.children)]
             b2 == IF SrcTag(b.src, e) = "element" THEN AddElement(b1, e, b.parent)
                   ELSE AddOther(b1, e, b.parent)
             child == CHOOSE i \in 1..Len(b2.nodes) :
                          b2.nodes[i].src = e /\ b2.nodes[i].role # "text"
         IN  IF SrcChildren[e] # <<>>
             THEN [b2 EXCEPT !.ancestors = Append(@, b.parent), !.parent = child,
                             !.iterators = Append(@, b1.children),
                             !.children = SrcChildren[e]]
             ELSE AddText(b2, e \in b.src.tail, "tail", b.parent, e)
    ELSE IF b.iterators = <<>>
    THEN IF b.src.variant = "lxml" THEN ReturnLxmlTree(b) ELSE ReturnTree(b)
    ELSE LET parent == b.ancestors[Len(b.ancestors)]
             b1 == [b EXCEPT !.children = b.iterators[Len(b.iterators)],
                             !.parent = parent,
                             !.iterators = SubSeq(@, 1, Len(@) - 1),
                             !.ancestors = SubSeq(@, 1, Len(@) - 1)]
             last == b.nodes[LastChild(b, parent)].src
         IN  AddText(b1, last \in b.src.tail, "tail", parent, last)

RECURSIVE BuildLoop(_)
\* while True: ...
BuildLoop(b) == IF b.pc = "loop" THEN BuildLoop(BuildStep(b)) ELSE b

NewBuild(src, fragment) ==
    [src |-> src, fragment |-> fragment, pc |-> "loop", position |-> StartPosition,
     nodes |-> <<>>, document_node |-> 0, root_node |-> 0, parent |-> 0,
     children |-> <<>>, iterators |-> <<>>, ancestors |-> <<>>, result |-> 0]

\* the decision of build_node_tree to build a document node: a document was
\* given, and no fragment of a document with a root element was requested
KeepsDocumentAlways(src, fragment) == src.kind # "element"

KeepsDocument(src, fragment) ==
    src.kind # "element" /\ ~(fragment = "true" /\ src.kind # "empty")

\* the root element node, its text and the loop
BuildFromRoot(b) ==
    LET b1 == NewNode(b, "element", "elem", b.document_node, 1, b.position)
        step == IF b.src.variant = "lxml"
                THEN LxmlOffset(b.src.ns, SrcAttribs(b.src, 1))
                ELSE NsPosOffset(b.src.ns) + SrcAttribs(b.src, 1)
        b2 == [b1 EXCEPT !.root_node = Len(b1.nodes), !.parent = Len(b1.nodes),
                         !.position = b.position + step, !.children = SrcChildren[1]]
    IN  BuildLoop(AddText(b2, 1 \in b.src.text, "text", b2.root_node, 1))

\* EtreeDocumentNode(document, uri, position); position += 1
AddDocument(b) ==
    LET b1 == NewNode(b, "document", "doc", 0, 0, b.position)
    IN  [b1 EXCEPT !.document_node = Len(b1.nodes), !.position = NextPosition(b.position)]

build_node_tree(src, fragment) ==
    LET b == NewBuild(src, fragment)
    IN  IF KeepsDocument(src, fragment)
        THEN IF src.kind = "empty"
             THEN [AddDocument(b) EXCEPT !.result = 1, !.pc = "done"]
             ELSE BuildFromRoot(AddDocument(b))
        ELSE BuildFromRoot(b)

\* the decision of build_lxml_node_tree to build a document node
LxmlKeepsDocument(src, fragment) ==
    IF fragment = "true" THEN FALSE
    ELSE IF src.kind # "element" THEN TRUE
    ELSE fragment = "false" \/ src.before + src.after > 0

build_lxml_node_tree(src, fragment) ==
    LET b == NewBuild(src, fragment)
    IN  IF LxmlKeepsDocument(src, fragment)
        THEN LET b1 == AddDocument(b)
                 b2 == IF src.before = 1
                       THEN [NewNode(b1, "comment", "before", b1.document_node, 0,
                                     b1.position)
                                EXCEPT !.position = NextPosition(b1.position)]
                       ELSE b1
             IN  IF src.kind = "empty" THEN [b1 EXCEPT !.result = 1, !.pc = "done"]
                 ELSE BuildFromRoot(b2)
        ELSE IF src.kind = "empty" THEN [b EXCEPT !.pc = "raised"]
        ELSE BuildFromRoot(b)

\* an already built tree: a document node over an element node, or an element
\* node alone
BuiltTree(src, fragment) ==
    LET b == NewBuild(src, fragment)
    IN  IF src.kind = "document"
        THEN [b EXCEPT !.nodes = <<[kind |-> "document", role |-> "doc", parent |-> 0,
                                    src |-> 0, position |-> 1],
                                   [kind |-> "element", role |-> "elem", parent |-> 1,
                                    src |-> 1, position |-> 2]>>,
                       !.document_node = 1, !.root_node = 2]
        ELSE [b EXCEPT !.nodes = <<[kind |-> "element", role |-> "elem", parent |-> 0,
                                    src |-> 1, position |-> 1]>>,
                       !.root_node = 1]

get_node_tree(src, fragment) ==
    IF src.variant = "built"
    THEN LET b == BuiltTree(src, fragment)
         IN  IF fragment = "true" /\ src.kind = "document"
             THEN [b EXCEPT !.result = b.root_node, !.pc = "done"]
             ELSE IF fragment = "false" /\ src.kind = "element" /\ src.instance
             THEN GetDocumentNode(b, b.root_node)
             ELSE [b EXCEPT !.result = IF src.kind = "document" THEN b.document_node
                                       ELSE b.root_node,
                            !.pc = "done"]
    ELSE IF src.variant = "invalid" THEN [NewBuild(src, fragment) EXCEPT !.pc = "raised"]
    ELSE IF src.variant = "lxml" THEN build_lxml_node_tree(src, fragment)
    ELSE build_node_tree(src, fragment)

(***************************************************************************)
(* Build calls.  A first tree is built from any source; a second one, from *)
(* another source, is built by a separate call after it.                   *)
(***************************************************************************)
Pending(src, fragment) == [NewBuild(src, fragment) EXCEPT !.pc = "call"]

\* the sources of the second build call
SecondSources ==
    {src \in Sources :
        /\ src.variant \in {"etree", "lxml"} /\ src.instance
        /\ src.text = {1} /\ src.tail = {} /\ src.attrs = {} /\ src.tag3 = "element"
        /\ src.ns.len = 0 /\ src.before = 0 /\ src.after = 0}

\* the positions of the nodes of the built tree
TreePositions(b) == {b.nodes[i].position : i \in 1..Len(b.nodes)}

CallGetNodeTree ==
    /\ bld # <<>>
    /\ bld.b.pc = "call"
    /\ bld' = [bld EXCEPT !.b = get_node_tree(bld.b.src, bld.b.fragment)]
    /\ UNCHANGED <<ctx, gens, event, heap, dicts, lastOp, prd, evl, sch, cnt>>

CallBuildNodeTree ==
    /\ bld # <<>>
    /\ bld.b.pc = "call"
    /\ bld.b.src.variant = "etree"
    /\ bld' = [bld EXCEPT !.b = build_node_tree(bld.b.src, bld.b.fragment)]
    /\ UNCHANGED <<ctx, gens, event, heap, dicts, lastOp, prd, evl, sch, cnt>>

CallBuildLxmlNodeTree ==
    /\ bld # <<>>
    /\ bld.b.pc = "call"
    /\ bld.b.src.variant = "lxml"
    /\ bld' = [bld EXCEPT !.b = build_lxml_node_tree(bld.b.src, bld.b.fragment)]
    /\ UNCHANGED <<ctx, gens, event, heap, dicts, lastOp, prd, evl, sch, cnt>>

\* the caller keeps the first tree and calls a builder on another source
NextSource ==
    /\ bld # <<>>
    /\ bld.b.pc = "done"
    /\ bld.b.src.variant \in {"etree", "lxml"}
    /\ bld.trees = <<>>
    /\ \E src \in SecondSources, fragment \in Fragments :
           bld' = [b |-> Pending(src, fragment), trees |-> <<TreePositions(bld.b)>>]
    /\ UNCHANGED <<ctx, gens, event, heap, dicts, lastOp, prd, evl, sch, cnt>>

InitBuild ==
    /\ \E src \in Sources, fragment \in Fragments :
           bld = [b |-> Pending(src, fragment), trees |-> <<>>]
    /\ IdleAxis /\ IdleCopy /\ IdleProduct /\ IdleEval
    /\ IdleSchema /\ IdleCounter

NextBuild ==
    \/ CallGetNodeTree
    \/ CallBuildNodeTree
    \/ CallBuildLxmlNodeTree
    \/ NextSource

SpecBuild == InitBuild /\ [][NextBuild]_vars

Built == bld.b.pc = "done" /\ bld.b.src.variant \in {"etree", "lxml"}

ResultKind == bld.b.nodes[bld.b.result].kind

RECURSIVE SrcOrder(_, _)
RECURSIVE SrcOrderList(_, _)
\* the document order of the source below element e: the element, its text,
\* then each child's subtree followed by the child's tail
SrcOrder(src, e) ==
    <<[role |-> IF SrcTag(src, e) = "element" THEN "elem" ELSE SrcTag(src, e), src |-> e]>>
    \o (IF SrcTag(src, e) = "element" /\ e \in src.text
        THEN <<[role |-> "text", src |-> e]>> ELSE <<>>)
    \o SrcOrderList(src, SrcChildren[e])
SrcOrderList(src, es) ==
    IF es = <<>> THEN <<>>
    ELSE SrcOrder(src, Head(es))
         \o (IF Head(es) \in src.tail THEN <<[role |-> "tail", src |-> Head(es)]>> ELSE <<>>)
         \o SrcOrderList(src, Tail(es))

\* the document order of the whole tree returned
DocumentOrder(b) ==
    (IF b.nodes[b.result].kind = "document"
     THEN <<[role |-> b.nodes[b.result].role, src |-> 0]>> ELSE <<>>)
    \o (IF b.document_node # 0 /\ b.src.kind # "empty" /\ b.src.before = 1
        THEN <<[role |-> "before", src |-> 0]>> ELSE <<>>)
    \o (IF b.src.kind # "empty" THEN SrcOrder(b.src, 1) ELSE <<>>)
    \o (IF b.document_node # 0 /\ b.src.kind # "empty" /\ b.src.after = 1
        THEN <<[role |-> "after", src |-> 0]>> ELSE <<>>)

NodesOf(b, key) ==
    {i \in 1..Len(b.nodes) : b.nodes[i].role = key.role /\ b.nodes[i].src = key.src}

PositionOf(b, key) == b.nodes[CHOOSE i \in NodesOf(b, key) : TRUE].position

\* C5: for every tree built by build_node_tree and build_lxml_node_tree the
\* positions of the document, element, text, comment and processing
\* instruction nodes, read in document order (an element's text before its
\* children, a child's tail after the child's subtree), are strictly
\* increasing; there is one node for each of them and no other.
C5_PositionsIncrease ==
    Built =>
        LET order == DocumentOrder(bld.b)
        IN  /\ Len(order) = Len(bld.b.nodes)
            /\ \A k \in 1..Len(order) : Cardinality(NodesOf(bld.b, order[k])) = 1
            /\ \A k \in 1..(Len(order) - 1) :
                   PositionOf(bld.b, order[k]) < PositionOf(bld.b, order[k + 1])

\* a document with text, tails after a leaf and after a subtree, a comment
\* child and attributes has been built
C5_Witness ==
    /\ Built
    /\ bld.b.src.kind = "document"
    /\ bld.b.src.text = {1, 2} /\ bld.b.src.tail = {2, 3}
    /\ bld.b.src.tag3 = "comment" /\ bld.b.src.attrs = {1}
    /\ Len(bld.b.nodes) = 9

SecondBuilt == Built /\ bld.trees # <<>>

\* C6 (as amended): positions are unique within one tree only: every build
\* call numbers its nodes from 1, so two trees built by separate calls from
\* different sources both have a node at position 1.
C6_TreesShareFirstPosition ==
    /\ SecondBuilt => 1 \in bld.trees[1] \cap TreePositions(bld.b)
    /\ Built => \A i, j \in 1..Len(bld.b.nodes) :
                    i # j => bld.b.nodes[i].position # bld.b.nodes[j].position

\* two trees were built, the first one with more than one node
C6_Witness == SecondBuilt /\ Cardinality(bld.trees[1]) > 2 /\ Len(bld.b.nodes) > 2

\* C6 (as claimed): two trees built by separate build calls from different
\* sources never share a position value.
C6_TreesShareNoPosition ==
    SecondBuilt => bld.trees[1] \cap TreePositions(bld.b) = {}

Returned == bld.b.pc = "done"

\* C7 (as amended): with fragment = true the builder never returns a document
\* node for a source that has a root element (an element, a document with a
\* root element, an already built document node, a root with comment or
\* processing instruction siblings); for a document without a root element
\* build_node_tree returns the document node and build_lxml_node_tree raises.
C7_FragmentOfRootedSource ==
    (bld.b.fragment = "true" /\ bld.b.pc \in {"done", "raised"}
        /\ bld.b.src.variant # "invalid") =>
        IF bld.b.src.kind = "empty"
        THEN IF bld.b.src.variant = "lxml" THEN bld.b.pc = "raised"
             ELSE Returned /\ ResultKind = "document"
        ELSE Returned /\ ResultKind = "element"

\* a fragment was requested of an lxml document whose root has siblings
C7_Witness ==
    /\ Returned /\ bld.b.fragment = "true"
    /\ bld.b.src.variant = "lxml" /\ bld.b.src.kind = "document"
    /\ bld.b.src.before = 1 /\ bld.b.src.after = 1
    /\ ResultKind = "element"

\* C7 (as claimed): with fragment = true the builder never returns a document
\* node, for every accepted source.
C7_FragmentNeverDocument ==
    (Returned /\ bld.b.fragment = "true") => ResultKind # "document"

\* an element that is not an etree element instance (a schema element node)
NotEtreeElement(src) == src.kind = "element" /\ ~src.instance

InScopeNamespaces(ns) == IF ns.xml THEN ns.len ELSE ns.len + 1

EtreeBuilt == bld # <<>> /\ bld.b.pc = "done" /\ bld.b.src.variant = "etree"

\* a node build_node_tree created, and the node it created next
CreatedNext(b, i) == i < Len(b.nodes) /\ b.nodes[i + 1].role # "wrapper"

Gap(b, i) == b.nodes[i + 1].position - b.nodes[i].position

\* C26: in a tree build_node_tree built, the node created after an element
\* is 1 + N + A positions after it, N the in-scope namespaces with 'xml'
\* counted once and A the element's attributes; the node created after a
\* text, comment, processing instruction or document node is one position
\* after it.
C26_ElementGap ==
    EtreeBuilt =>
        \A i \in 1..Len(bld.b.nodes) :
            CreatedNext(bld.b, i) =>
                Gap(bld.b, i) =
                    IF bld.b.nodes[i].kind = "element"
                    THEN 1 + InScopeNamespaces(bld.b.src.ns)
                           + SrcAttribs(bld.b.src, bld.b.nodes[i].src)
                    ELSE 1

\* an element with an attribute under a namespaces argument without 'xml':
\* its text is four positions after it, and a comment is one position
\* before its tail
C26_Witness ==
    /\ EtreeBuilt
    /\ bld.b.src.ns = [len |-> 1, xml |-> FALSE]
    /\ \E i \in 1..(Len(bld.b.nodes) - 1) :
           /\ bld.b.nodes[i].kind = "element"
           /\ SrcAttribs(bld.b.src, bld.b.nodes[i].src) = 1
           /\ bld.b.nodes[i + 1].kind = "text"
           /\ Gap(bld.b, i) = 4
    /\ \E i \in 1..(Len(bld.b.nodes) - 1) :
           /\ bld.b.nodes[i].kind = "comment"
           /\ bld.b.nodes[i + 1].role = "tail"
           /\ Gap(bld.b, i) = 1

(***************************************************************************)
(* Cartesian products of range clauses: iter_product, the 'for' expression *)
(* and the quantified expressions 'some' and 'every'.  The variable of the *)
(* k-th clause is named by its index k; 0 is an unbound variable.          *)
(***************************************************************************)
MaxDim == 2
MaxRangeLen == 2

\* the sequences selected by the range expressions: 1, 2, 1, ... and
\* 2, 1, 2, ... up to the maximal length, the empty sequence included
Ranges == {[i \in 1..n |-> ((i + s) % 2) + 1] : n \in 0..MaxRangeLen, s \in 0..1}

ReturnBodies == {"mul", "vars", "first", "empty"}
SatisfiesBodies == {"true", "false", "last2", "equal"}

RECURSIVE Times(_)
Times(v) == IF v = <<>> THEN 1 ELSE Head(v) * Times(Tail(v))

\* self[-1].select(copy(context)) of a 'for' expression: the items of the
\* return expression under the variables of the context
ReturnSelect(body, variables) ==
    CASE body = "mul" -> <<Times(variables)>>
      [] body = "vars" -> variables
      [] body = "first" -> <<variables[1]>>
      [] body = "empty" -> <<>>

\* self.boolean_value(self[-1].select(copy(context))) of a quantified expression
SatisfiesValue(body, variables) ==
    CASE body = "true" -> TRUE
      [] body = "false" -> FALSE
      [] body = "last2" -> variables[Len(variables)] = 2
      [] body = "equal" -> \A i \in 1..Len(variables) : variables[i] = variables[1]

\* the names of the loop variables of an expression whose variables differ,
\* by their place
VarName(k) == <<"x", "y", "z">>[k]

\* varnames of a 'for', 'some' or 'every' expression with n variables
LoopVariables(n) == [k \in 1..n |-> VarName(k)]

\* the varnames argument of iter_product: a name for each selector, the
\* same name for all of them, or none (varnames=None)
VarnamesArgs(n) == {LoopVariables(n), [k \in 1..n |-> "x"], <<>>}

\* the variables mappings the caller's context can hold: none, or bindings
\* of a name that is a loop variable too and of another name
CallerVariables == {<<>>, [n \in {"x", "w"} |-> 9]}

\* the context the expression is evaluated on; its variables mapping is
\* object 1 of the mappings
CallerContext ==
    [document |-> 1, root |-> 1, item |-> 3, size |-> 3, position |-> 2,
     axis |-> "child", variables |-> 1]

\* the context objects of an evaluation, by their place in objs
Caller == 1
Context == 2
ProductContext == 3
BodyContext == 4

\* copy(c) stored as object i: the copy allocates mapping i with the items of
\* c.variables
CopyTo(objs, maps, c, i) ==
    [objs |-> [j \in DOMAIN objs \cup {i} |->
                  IF j = i THEN ContextCopy(objs[c], i) ELSE objs[j]],
     maps |-> [j \in DOMAIN maps \cup {i} |->
                  IF j = i THEN maps[objs[c].variables] ELSE maps[j]]]

\* context = copy(context); copy(context).iter_product(selectors, varnames):
\* iterators = [x(self) for x in selectors]; prod = [None] * dimension; k = 0
StartProduct(op, ranges, body, variables, varnames) ==
    LET first == CopyTo(<<CallerContext>>, <<variables>>, Caller, Context)
        second == CopyTo(first.objs, first.maps, Context, ProductContext)
    IN [op |-> op, ranges |-> ranges, body |-> body, pc |-> "loop",
        iterators |-> ranges, k |-> 1, prod |-> [i \in 1..Len(ranges) |-> 0],
        pvars |-> [i \in 1..Len(ranges) |-> 0], cvars |-> [i \in 1..Len(ranges) |-> 0],
        yielded |-> FALSE, out |-> <<>>, seen |-> <<>>, tuples |-> <<>>, result |-> "none",
        objs |-> second.objs, maps |-> second.maps, given |-> variables, entered |-> <<>>,
        varnames |-> varnames]

NoRestart(ranges, k) == <<>>

\* iterators[k] = selectors[k](self)
Restart(ranges, k) == ranges[k]

RECURSIVE iter_product(_)
\* one resumption of the generator: runs to the next yield of tuple(prod)
\* (yielded = TRUE) or to its return (yielded = FALSE)
iter_product(p) ==
    IF p.iterators[p.k] # <<>>
    THEN LET value == Head(p.iterators[p.k])
             q == [p EXCEPT !.iterators[p.k] = Tail(p.iterators[p.k]),
                            !.pvars[p.k] = value,
                            !.maps[p.objs[ProductContext].variables] =
                                IF p.k <= Len(p.varnames)
                                THEN Bound(@, p.varnames[p.k], value) ELSE @,
                            !.prod[p.k] = value]
         IN  IF p.k = Len(p.ranges)
             THEN [q EXCEPT !.yielded = TRUE, !.tuples = Append(p.tuples, q.prod)]
             ELSE iter_product([q EXCEPT !.k = p.k + 1])
    ELSE IF p.k = 1
         THEN [p EXCEPT !.yielded = FALSE]
         ELSE iter_product([p EXCEPT !.iterators[p.k] = Restart(p.ranges, p.k),
                                     !.k = p.k - 1])

KeepVariables(variables, results) == variables

\* context.variables.update(x for x in zip(varnames, results))
UpdateVariables(variables, results) ==
    [i \in DOMAIN variables |-> IF i \in DOMAIN results THEN results[i] ELSE variables[i]]

RECURSIVE BindAll(_, _, _)
\* context.variables.update(...), on the mapping the context holds
BindAll(d, results, k) ==
    IF k > Len(results) THEN d
    ELSE BindAll(Bound(d, VarName(k), results[k]), results, k + 1)

\* self[-1].select(copy(context)): the body gets a copy of the context, and
\* what it binds or focuses while it runs it writes to that copy
RunBody(q) ==
    LET updated == [q.maps EXCEPT ![q.objs[Context].variables] =
                       BindAll(@, UpdateVariables(q.cvars, q.prod), 1)]
        body == CopyTo(q.objs, updated, Context, BodyContext)
        ref == body.objs[BodyContext].variables
    IN [q EXCEPT !.entered = Append(@, body.maps[ref]),
                 !.objs = [body.objs EXCEPT ![BodyContext].item = q.prod[1],
                                            ![BodyContext].axis = "self"],
                 !.maps = [body.maps EXCEPT ![ref] = Bound(@, "v", Len(q.tuples))]]

\* one turn of the loop of select_for_expression: the next tuple is pulled,
\* the variables are bound and the items of the return expression are yielded
select_for_expression(p) ==
    LET q == iter_product(p)
    IN  IF ~q.yielded THEN [q EXCEPT !.pc = "done"]
        ELSE LET variables == UpdateVariables(q.cvars, q.prod)
                 r == RunBody(q)
             IN  [r EXCEPT !.cvars = variables,
                           !.seen = Append(q.seen, variables),
                           !.out = q.out \o ReturnSelect(q.body, variables)]

DecidesNever(some, holds) == FALSE

\* if value: if some: return True / elif not some: return False
Decides(some, holds) == IF holds THEN some ELSE ~some

RECURSIVE evaluate_quantified_expressions(_)
evaluate_quantified_expressions(p) ==
    LET q == iter_product(p)
        some == p.op = "some"
    IN  IF ~q.yielded
        THEN [q EXCEPT !.pc = "done", !.result = IF some THEN "false" ELSE "true"]
        ELSE LET variables == UpdateVariables(q.cvars, q.prod)
                 holds == SatisfiesValue(q.body, variables)
                 r == [RunBody(q) EXCEPT !.cvars = variables,
                                         !.seen = Append(q.seen, variables)]
             IN  IF Decides(some, holds)
                 THEN [r EXCEPT !.pc = "done", !.result = IF some THEN "true" ELSE "false"]
                 ELSE evaluate_quantified_expressions(r)

SelectFor ==
    /\ prd # <<>>
    /\ prd.op = "for" /\ prd.pc = "loop"
    /\ prd' = select_for_expression(prd)
    /\ UNCHANGED <<ctx, gens, event, heap, dicts, lastOp, bld, evl, sch, cnt>>

EvaluateQuantified ==
    /\ prd # <<>>
    /\ prd.op \in {"some", "every"} /\ prd.pc = "loop"
    /\ prd' = evaluate_quantified_expressions(prd)
    /\ UNCHANGED <<ctx, gens, event, heap, dicts, lastOp, bld, evl, sch, cnt>>

InitProduct ==
    /\ \E n \in 1..MaxDim : \E ranges \in [1..n -> Ranges], variables \in CallerVariables :
           \/ \E body \in ReturnBodies :
                  prd = StartProduct("for", ranges, body, variables, LoopVariables(n))
           \/ \E op \in {"some", "every"}, body \in SatisfiesBodies :
                  prd = StartProduct(op, ranges, body, variables, LoopVariables(n))
           \/ \E varnames \in VarnamesArgs(n) :
                  prd = StartProduct("product", ranges, "none", variables, varnames)
    /\ IdleAxis /\ IdleCopy /\ IdleBuild /\ IdleEval
    /\ IdleSchema /\ IdleCounter

\* a consumer pulls the next tuple from context.iter_product(selectors,
\* varnames)
IterProduct ==
    /\ prd # <<>>
    /\ prd.op = "product" /\ prd.pc = "loop"
    /\ prd' = LET q == iter_product(prd)
              IN IF q.yielded THEN q ELSE [q EXCEPT !.pc = "done"]
    /\ UNCHANGED <<ctx, gens, event, heap, dicts, lastOp, bld, evl, sch, cnt>>

NextProduct == SelectFor \/ EvaluateQuantified \/ IterProduct

SpecProduct == InitProduct /\ [][NextProduct]_vars

RECURSIVE Flatten(_)
Flatten(ss) == IF ss = <<>> THEN <<>> ELSE Head(ss) \o Flatten(Tail(ss))

RECURSIVE Odometer(_)
\* the tuples of the cartesian product in nested-loop order: the first
\* component varies slowest, the last one fastest
Odometer(ranges) ==
    IF ranges = <<>> THEN << <<>> >>
    ELSE LET rest == Odometer(Tail(ranges))
         IN  Flatten([i \in 1..Len(Head(ranges)) |->
                        [j \in 1..Len(rest) |-> <<Head(ranges)[i]>> \o rest[j]]])

\* C9: a 'for' expression yields the items of its return expression for
\* every tuple of the cartesian product of its ranges in odometer order (the
\* last variable fastest), each evaluated with the loop variables bound to
\* the components of that tuple; all tuples are done at its end, and
\* for $x in (1,2), $y in (1,2) return $x*$y gives 1, 2, 2, 4.
C9_ForInOdometerOrder ==
    (prd # <<>> /\ prd.op = "for") =>
        LET order == Odometer(prd.ranges)
            n == Len(prd.tuples)
        IN  /\ n <= Len(order)
            /\ prd.tuples = SubSeq(order, 1, n)
            /\ prd.seen = prd.tuples
            /\ prd.out = Flatten([i \in 1..n |-> ReturnSelect(prd.body, order[i])])
            /\ prd.pc = "done" => n = Len(order)
            /\ (prd.pc = "done" /\ prd.ranges = << <<1, 2>>, <<1, 2>> >> /\ prd.body = "mul")
                   => prd.out = <<1, 2, 2, 4>>

\* for $x in (1,2), $y in (1,2) return $x*$y has yielded its four items
C9_Witness ==
    /\ prd # <<>> /\ prd.op = "for" /\ prd.pc = "done"
    /\ prd.ranges = << <<1, 2>>, <<1, 2>> >> /\ prd.body = "mul"
    /\ prd.out = <<1, 2, 2, 4>>

\* the deciding tuples of a quantified expression, by their place in the order
Deciding(op, body, order) ==
    {i \in 1..Len(order) : SatisfiesValue(body, order[i]) = (op = "some")}

Min(S) == CHOOSE x \in S : \A y \in S : x <= y

\* C10: 'some' returns true at the first tuple in odometer order that
\* satisfies the body, 'every' returns false at the first tuple that fails
\* it, and neither pulls a tuple after that one; when no tuple decides (so
\* when a range is empty) the product is exhausted, 'some' returns false and
\* 'every' returns true.
C10_QuantifiersShortCircuit ==
    (prd # <<>> /\ prd.op \in {"some", "every"} /\ prd.pc = "done") =>
        LET order == Odometer(prd.ranges)
            deciding == Deciding(prd.op, prd.body, order)
        IN  IF deciding # {}
            THEN /\ prd.result = (IF prd.op = "some" THEN "true" ELSE "false")
                 /\ prd.tuples = SubSeq(order, 1, Min(deciding))
                 /\ prd.seen = prd.tuples
            ELSE /\ prd.result = (IF prd.op = "some" THEN "false" ELSE "true")
                 /\ prd.tuples = order
                 /\ ~prd.yielded

\* 'some' was decided by the second of four tuples
C10_Witness ==
    /\ prd # <<>> /\ prd.op = "some" /\ prd.pc = "done" /\ prd.result = "true"
    /\ Len(prd.tuples) = 2 /\ Len(Odometer(prd.ranges)) = 4

ProductStarted == prd # <<>> /\ prd.op \in {"for", "some", "every"}

\* C25: a 'for', 'some' or 'every' expression leaves the caller's context as
\* it was, at every point of the evaluation: its variables mapping, item,
\* position, size and axis; and the body run for a tuple sees the caller's
\* variables with the loop variables bound to that tuple, and nothing that
\* the body run for an earlier tuple has bound.
C25_CallerContextUntouched ==
    ProductStarted =>
        /\ prd.objs[Caller] = CallerContext
        /\ prd.maps[prd.objs[Caller].variables] = prd.given
        /\ Len(prd.entered) = Len(prd.tuples)
        /\ \A t \in 1..Len(prd.entered) :
               prd.entered[t] = BindAll(prd.given, prd.tuples[t], 1)

\* the body has run for two tuples and has bound a variable of its own, the
\* caller's binding of the loop variable's name is still 9
C25_Witness ==
    /\ ProductStarted
    /\ prd.op = "for" /\ prd.pc = "done"
    /\ Len(prd.entered) >= 2
    /\ prd.given # <<>>
    /\ prd.maps[prd.objs[Caller].variables]["x"] = 9
    /\ prd.maps[prd.objs[Context].variables]["x"] = 2
    /\ "v" \in DOMAIN prd.maps[prd.objs[BodyContext].variables]
    /\ prd.objs[BodyContext].axis = "self"

RECURSIVE Size(_)
\* |S1| x ... x |SN|
Size(ranges) == IF ranges = <<>> THEN 1 ELSE Len(Head(ranges)) * Size(Tail(ranges))

ProductPulled == prd # <<>> /\ prd.op = "product"
ProductVariables == prd.maps[prd.objs[ProductContext].variables]

\* the places of varnames whose name is not the name of a later place
LastOfName(k) == \A j \in (k + 1)..Len(prd.varnames) : prd.varnames[j] # prd.varnames[k]

LastBindings ==
    (ProductPulled /\ prd.yielded) =>
        \A k \in 1..Len(prd.varnames) :
            LastOfName(k) => ProductVariables[prd.varnames[k]] = prd.prod[k]

\* a pull either yields one more tuple or is the last one
ProductAdvances ==
    ProductPulled =>
        \/ prd'.yielded /\ prd'.pc = "loop" /\ Len(prd'.tuples) = Len(prd.tuples) + 1
        \/ ~prd'.yielded /\ prd'.pc = "done" /\ prd'.tuples = prd.tuples

ProductInOrder ==
    ProductPulled =>
        LET order == Odometer(prd.ranges)
            n == Len(prd.tuples)
        IN  /\ n <= Len(order)
            /\ prd.tuples = SubSeq(order, 1, n)
            /\ Len(order) = Size(prd.ranges)
            /\ prd.pc = "done" => n = Size(prd.ranges)
            /\ prd.objs[Caller] = CallerContext

\* C27 (as evaluated): iter_product yields the tuples of the product of its
\* selectors in nested-loop order, one more with every pull, and returns at
\* the pull after |S1| x ... x |SN| of them (at the first pull when a
\* selector is empty); at each yield the variable named by
\* varnames[k] holds the k-th component of the tuple for every place k whose
\* name no later place of varnames repeats.
C27_ProductTuplesAndLastBindings ==
    /\ [](ProductInOrder /\ LastBindings)
    /\ [][ProductAdvances]_vars

\* the four tuples of a product of two selectors are out, under one name
\* for both places
C27_Witness ==
    /\ ProductPulled /\ prd.pc = "done"
    /\ prd.ranges = << <<1, 2>>, <<2, 1>> >>
    /\ prd.varnames = <<"x", "x">>
    /\ prd.tuples = << <<1, 2>>, <<1, 1>>, <<2, 2>>, <<2, 1>> >>
    /\ ProductVariables["x"] = 1

\* C27 (as stated): at each yield variables[varnames[k]] is the k-th
\* component of the tuple, for every k.
C27_EveryVariableBound ==
    (ProductPulled /\ prd.yielded) =>
        \A k \in 1..Len(prd.varnames) : ProductVariables[prd.varnames[k]] = prd.prod[k]

(***************************************************************************)
(* Operators of XPath 2.0.  An evaluation takes the operator's operands,   *)
(* already selected, and the dynamic context; its outcome is a value or    *)
(* the code of the error raised.                                           *)
(***************************************************************************)
NoContext == [root |-> NoNode, documents |-> <<>>, schema |-> FALSE, none |-> TRUE]

\* the contexts of an evaluation: the root, the document nodes bound to
\* variables, and whether the context is an XPathSchemaContext
EvalContexts ==
    {[root |-> r, documents |-> d, schema |-> FALSE, none |-> FALSE] :
        r \in {1, 6, 11, NoNode}, d \in {<<>>, <<10>>, <<1>>}}

RECURSIVE IterDocument(_)
RECURSIVE IterDocumentList(_)
\* root.iter_document(): the nodes of the tree in document order, the
\* attributes of an element after the element
IterDocument(n) == <<n>> \o Attributes[n] \o IterDocumentList(Children[n])
IterDocumentList(s) ==
    IF s = <<>> THEN <<>> ELSE IterDocument(Head(s)) \o IterDocumentList(Tail(s))

RECURSIVE IterDocuments(_)
\* for root in documents: if root is not None: for item in root.iter_document()
IterDocuments(roots) ==
    IF roots = <<>> THEN <<>>
    ELSE (IF Head(roots) = NoNode THEN <<>> ELSE IterDocument(Head(roots)))
         \o IterDocuments(Tail(roots))

BoolValue(b) == IF b THEN "true" ELSE "false"

FoundLeftAlways(symbol) == "true"

\* return True if symbol == '<<' else False
FoundLeft(symbol) == BoolValue(symbol = "<<")

\* return False if symbol == '<<' else True
FoundRight(symbol) == BoolValue(symbol # "<<")

\* the operand sequences of a node comparison
NodeOperands ==
    {<<>>, <<Atom>>, <<3, 6>>} \cup {<<n>> : n \in {1, 3, 4, 5, 6, 7, 8, 9, 10, 11, 12}}

evaluate_node_comparison(symbol, left, right, context) ==
    IF left = <<>> THEN "empty"
    ELSE IF Len(left) > 1 \/ ~IsNode(left[1]) THEN "XPTY0004"
    ELSE IF right = <<>> THEN "empty"
    ELSE IF Len(right) > 1 \/ ~IsNode(right[1]) THEN "XPTY0004"
    ELSE IF symbol = "is" THEN BoolValue(left[1] = right[1])
    ELSE IF left[1] = right[1] \/ context.none THEN "false"
    ELSE LET items == IterDocuments(<<context.root>> \o context.documents)
             hits == {i \in 1..Len(items) : items[i] \in {left[1], right[1]}}
         IN  IF hits = {} THEN "FOCA0002"
             ELSE LET first == CHOOSE i \in hits : \A j \in hits : i <= j
                  IN  IF items[first] = left[1] THEN FoundLeft(symbol)
                      ELSE FoundRight(symbol)

Ready == evl # <<>> /\ evl.op = "idle"

NodeComparison ==
    /\ Ready
    /\ \E symbol \in {"is", "<<", ">>"}, left \in NodeOperands, right \in NodeOperands,
          context \in EvalContexts \cup {NoContext} :
           evl' = [op |-> symbol, left |-> left, right |-> right, context |-> context,
                   result |-> evaluate_node_comparison(symbol, left, right, context)]
    /\ UNCHANGED <<ctx, gens, event, heap, dicts, lastOp, bld, prd, sch, cnt>>

\* both operands are single nodes of the tree of the context's root
InContextTree ==
    /\ evl # <<>> /\ evl.op \in {"is", "<<", ">>"}
    /\ ~evl.context.none /\ evl.context.root # NoNode
    /\ Len(evl.left) = 1 /\ Len(evl.right) = 1
    /\ {evl.left[1], evl.right[1]} \subseteq SeqSet(IterDocument(evl.context.root))

\* C11: for two single nodes a and b of the context's tree, a << b is true
\* iff position(a) < position(b), a >> b iff position(a) > position(b) and
\* a is b iff a and b are the same node; so a << a and a >> a are false and
\* of two distinct nodes exactly one precedes the other.
C11_NodeComparisonByPosition ==
    InContextTree =>
        LET a == evl.left[1]
            b == evl.right[1]
        IN  /\ evl.op = "<<" => evl.result = BoolValue(Pos[a] < Pos[b])
            /\ evl.op = ">>" => evl.result = BoolValue(Pos[a] > Pos[b])
            /\ evl.op = "is" => evl.result = BoolValue(a = b)
            /\ a # b => Pos[a] # Pos[b]

\* an attribute is compared with a later element of the tree by >>
C11_Witness ==
    /\ InContextTree /\ evl.op = ">>"
    /\ evl.left = <<8>> /\ evl.right = <<4>> /\ evl.result = "true"

(***************************************************************************)
(* The idiv operator.  A numeric operand is an integer, a decimal or a     *)
(* double; doubles take integral values, the infinities and NaN.           *)
(***************************************************************************)
MaxInt == 5

Num(type, value) == [type |-> type, value |-> value, special |-> ""]
Special(s) == [type |-> "double", value |-> 0, special |-> s]
NoOperand == [type |-> "none", value |-> 0, special |-> ""]
StringOperand == [type |-> "string", value |-> 0, special |-> ""]

IdivOperands ==
    {Num("integer", v) : v \in (-MaxInt)..MaxInt}
    \cup {Num("double", v) : v \in {-4, 0, 2}}
    \cup {Num("decimal", v) : v \in {-4, 0, 2}}
    \cup {Special(s) : s \in {"inf", "-inf", "nan"}}
    \cup {NoOperand, StringOperand}

\* the operands get_operands delivers: a decimal is never paired with a double
IdivPairs ==
    {p \in IdivOperands \X IdivOperands : {p[1].type, p[2].type} # {"decimal", "double"}}

IsInf(op) == op.special \in {"inf", "-inf"}
IsNaN(op) == op.special = "nan"
IsZero(op) == op.type \in {"integer", "double", "decimal"} /\ op.special = "" /\ op.value = 0
IsNegative(op) == op.special = "-inf" \/ (op.special = "" /\ op.value < 0)

Abs(v) == IF v < 0 THEN -v ELSE v

\* Python's floor division of integral values
FloorDiv(a, b) == IF b > 0 THEN a \div b ELSE (-a) \div (-b)

\* the quotient truncated toward zero (the floor division of Decimal)
TruncDiv(a, b) ==
    IF (a < 0) = (b < 0) THEN Abs(a) \div Abs(b) ELSE -(Abs(a) \div Abs(b))

Value(v) == [code |-> "", value |-> v]
Error(code) == [code |-> code, value |-> 0]

\* if result >= 0 or isinstance(op1, Decimal) or isinstance(op2, Decimal)
\*    or abs(op1) == abs(op2): return int(result)  else: return int(result) + 1
Adjust(result, op1, op2) ==
    IF \/ result >= 0
       \/ "decimal" \in {op1.type, op2.type}
       \/ (op1.special = "" /\ op2.special = "" /\ Abs(op1.value) = Abs(op2.value))
    THEN result
    ELSE result + 1

\* raise self.error('FOAR0001' if op2 == 0 else 'FOAR0002') for an infinite op1
InfiniteDividendCode(op2) == IF IsZero(op2) THEN "FOAR0001" ELSE "FOAR0002"

\* result = op1 // op2 for finite op1 and an operand pair free of NaN
Quotient(op1, op2) ==
    IF IsInf(op2)
    THEN (IF op1.value = 0 \/ (op1.value < 0) = IsNegative(op2) THEN 0 ELSE -1)
    ELSE IF "decimal" \in {op1.type, op2.type} THEN TruncDiv(op1.value, op2.value)
    ELSE FloorDiv(op1.value, op2.value)

evaluate_idiv_operator(op1, op2, schema) ==
    IF "none" \in {op1.type, op2.type} THEN Error("XPST0005")
    ELSE IF op1.type = "string" THEN (IF schema THEN Value(1) ELSE Error("XPTY0004"))
    ELSE IF IsInf(op1) THEN Error(InfiniteDividendCode(op2))
    ELSE IF IsNaN(op1) THEN Error("FOAR0002")
    ELSE IF op2.type = "string" THEN (IF schema THEN Value(1) ELSE Error("XPTY0004"))
    ELSE IF IsNaN(op2) THEN Error("FOAR0002")
    ELSE IF IsZero(op2)
         THEN IF "decimal" \in {op1.type, op2.type} /\ op1.value = 0
              THEN Error("InvalidOperation")
              ELSE IF schema THEN Value(1) ELSE Error("FOAR0001")
    ELSE Value(Adjust(Quotient(op1, op2), op1, op2))

\* the failure classes of an evaluation of idiv
FailureClasses(op1, op2) ==
    {c \in {"zero", "infinite", "nan"} :
        \/ c = "zero" /\ IsZero(op2) /\ op1.type \in {"integer", "double", "decimal"}
                      /\ op1.special = ""
        \/ c = "infinite" /\ IsInf(op1) /\ op2.type \in {"integer", "double", "decimal"}
        \/ c = "nan" /\ {op1.type, op2.type} \subseteq {"integer", "double", "decimal"}
                     /\ (IsNaN(op1) \/ IsNaN(op2))}

\* idiv is evaluated, once or a second time after a first evaluation
Idiv ==
    /\ evl # <<>>
    /\ evl.op = "idle" \/ (evl.op = "idiv" /\ evl.previous = <<>>)
    /\ \E p \in IdivPairs, schema \in BOOLEAN :
           evl' = [op |-> "idiv", op1 |-> p[1], op2 |-> p[2], schema |-> schema,
                   result |-> evaluate_idiv_operator(p[1], p[2], schema),
                   previous |-> IF evl.op = "idle" THEN <<>>
                                ELSE <<[classes |-> FailureClasses(evl.op1, evl.op2),
                                        schema |-> evl.schema,
                                        result |-> evl.result]>>]
    /\ UNCHANGED <<ctx, gens, event, heap, dicts, lastOp, bld, prd, sch, cnt>>

IntegerIdiv ==
    /\ evl # <<>> /\ evl.op = "idiv" /\ ~evl.schema
    /\ evl.op1.type = "integer" /\ evl.op2.type = "integer" /\ evl.op2.value # 0

\* C12: for integers a and b, b # 0, in a non-schema context a idiv b is the
\* quotient truncated toward zero, whatever the signs and whether or not the
\* division is exact.
C12_IdivTruncates ==
    IntegerIdiv => evl.result = Value(TruncDiv(evl.op1.value, evl.op2.value))

CodedErrors == {"FOAR0001", "FOAR0002", "XPTY0004", "XPST0005"}

\* C13: in a non-schema context idiv raises a coded error for each of its
\* failure classes (zero divisor with a finite dividend, infinite dividend,
\* NaN operand), and two evaluations failing in different classes never raise
\* the same code.
C13_DistinctErrorCodes ==
    (evl # <<>> /\ evl.op = "idiv" /\ ~evl.schema) =>
        LET classes == FailureClasses(evl.op1, evl.op2)
        IN  /\ classes # {} => evl.result.code \in CodedErrors
            /\ \A i \in 1..Len(evl.previous) :
                   (/\ ~evl.previous[i].schema
                    /\ evl.previous[i].classes # {} /\ classes # {}
                    /\ evl.previous[i].classes \cap classes = {})
                       => evl.previous[i].result.code # evl.result.code

(***************************************************************************)
(* Value comparisons (eq, ne, lt, le, gt, ge) of atomized operands.        *)
(***************************************************************************)
ComparisonOperands ==
    {Num("double", v) : v \in {1, 2, 100000000, 100000001}}
    \cup {Special(s) : s \in {"inf", "-inf", "nan"}}
    \cup {Num("integer", v) : v \in {1, 2}}
    \cup {Num("boolean", 1), NoOperand, [type |-> "function", value |-> 0, special |-> ""]}

\* math.isclose(op1, op2, rel_tol=1e-7, abs_tol=0.0) on finite integral
\* values: abs(a - b) <= 1e-7 * max(abs(a), abs(b))
IsClose(a, b) ==
    Abs(a - b) <= (IF Abs(a) >= Abs(b) THEN Abs(a) ELSE Abs(b)) \div 10000000

\* op1 == op2 on doubles: NaN is equal to nothing
FloatEqual(op1, op2) == ~IsNaN(op1) /\ ~IsNaN(op2) /\ op1 = op2

\* op1 < op2 on doubles
FloatLess(op1, op2) ==
    /\ ~IsNaN(op1) /\ ~IsNaN(op2)
    /\ \/ op1.special = "-inf" /\ op2.special # "-inf"
       \/ op2.special = "inf" /\ op1.special # "inf"
       \/ op1.special = "" /\ op2.special = "" /\ op1.value < op2.value

numeric_equal_same(op1, op2) == op1 = op2

numeric_equal(op1, op2) ==
    IF FloatEqual(op1, op2) THEN TRUE
    ELSE op1.special = "" /\ op2.special = "" /\ IsClose(op1.value, op2.value)

numeric_not_equal(op1, op2) ==
    IF FloatEqual(op1, op2) THEN FALSE
    ELSE ~(op1.special = "" /\ op2.special = "" /\ IsClose(op1.value, op2.value))

\* getattr(operator, self.symbol)(*operands) on two doubles
Operator(symbol, op1, op2) ==
    CASE symbol = "eq" -> FloatEqual(op1, op2)
      [] symbol = "ne" -> ~FloatEqual(op1, op2)
      [] symbol = "lt" -> FloatLess(op1, op2)
      [] symbol = "le" -> FloatLess(op1, op2) \/ FloatEqual(op1, op2)
      [] symbol = "gt" -> FloatLess(op2, op1)
      [] symbol = "ge" -> FloatLess(op2, op1) \/ FloatEqual(op1, op2)

\* get_double(value): an integer operand compared with a double
GetDouble(op) == IF op.type = "integer" THEN Num("double", op.value) ELSE op

evaluate_value_comparison_operators(symbol, op1, op2) ==
    IF "none" \in {op1.type, op2.type} THEN "empty"
    ELSE IF "function" \in {op1.type, op2.type} THEN "FOTY0013"
    ELSE IF op1.type = "double" /\ op2.type = "double" /\ symbol = "eq"
         THEN BoolValue(numeric_equal(op1, op2))
    ELSE IF op1.type = "double" /\ op2.type = "double" /\ symbol = "ne"
         THEN BoolValue(numeric_not_equal(op1, op2))
    ELSE IF op1.type = "double" /\ op2.type = "double" /\ numeric_equal(op1, op2)
         THEN BoolValue(symbol \in {"le", "ge"})
    ELSE IF op1.type # op2.type /\ "boolean" \in {op1.type, op2.type} THEN "XPTY0004"
    ELSE BoolValue(Operator(symbol, GetDouble(op1), GetDouble(op2)))

CompareValues ==
    /\ Ready
    /\ \E symbol \in {"eq", "ne", "lt", "le", "gt", "ge"},
          op1 \in ComparisonOperands, op2 \in ComparisonOperands :
           evl' = [op |-> symbol, op1 |-> op1, op2 |-> op2,
                   result |-> evaluate_value_comparison_operators(symbol, op1, op2)]
    /\ UNCHANGED <<ctx, gens, event, heap, dicts, lastOp, bld, prd, sch, cnt>>

\* a value comparison of two doubles of which at least one is NaN
NaNComparison ==
    /\ evl # <<>> /\ evl.op \in {"eq", "ne", "lt", "le", "gt", "ge"}
    /\ evl.op1.type = "double" /\ evl.op2.type = "double"
    /\ IsNaN(evl.op1) \/ IsNaN(evl.op2)

\* C14: for two double operands of which at least one is NaN (also NaN with
\* itself) eq returns false, ne returns true, and lt, le, gt, ge return false.
C14_NaNComparesUnequal ==
    NaNComparison => evl.result = BoolValue(evl.op = "ne")

\* NaN eq NaN was evaluated
C14_Witness ==
    NaNComparison /\ evl.op = "eq" /\ IsNaN(evl.op1) /\ IsNaN(evl.op2)
        /\ evl.result = "false"

(***************************************************************************)
(* The node sequence operators intersect and except.                       *)
(***************************************************************************)
MaxOperandLen == 2

\* the items the operands select: nodes of the context's tree, a node of
\* another tree with the position of one of them, and an atomic value
OperandItems == {3, 6, 8, 12, Atom}

OperandSequences == UNION {[1..n -> OperandItems] : n \in 0..MaxOperandLen}

\* the enumerations of a set, each element once
Enumerations(S) ==
    {s \in [1..Cardinality(S) -> S] : \A i, j \in 1..Cardinality(S) : i # j => s[i] # s[j]}

Unsorted(S) == Enumerations(S)

\* sorted(S, key=node_position): the order of nodes with one position is
\* the order in which the set is iterated
Sorted(S) ==
    {s \in Enumerations(S) : \A i, j \in 1..Len(s) : i < j => Pos[s[i]] <= Pos[s[j]]}

\* the outcomes of select_intersect_and_except_operators
select_intersect_and_except_operators(symbol, left, right, context) ==
    LET s1 == SeqSet(left)
        s2 == SeqSet(right)
    IN  IF context.none THEN {[code |-> "MissingContext", items |-> <<>>]}
        ELSE IF \E x \in s1 \cup s2 : ~IsNode(x)
             THEN {[code |-> "XPTY0004", items |-> <<>>]}
        ELSE {[code |-> "", items |-> s] :
                 s \in Sorted(IF symbol = "except" THEN s1 \ s2 ELSE s1 \cap s2)}

IntersectExcept ==
    /\ Ready
    /\ \E symbol \in {"intersect", "except"}, left \in OperandSequences,
          right \in OperandSequences,
          context \in {NoContext, [NoContext EXCEPT !.root = 1, !.none = FALSE]} :
           \E result \in select_intersect_and_except_operators(symbol, left, right, context) :
               evl' = [op |-> symbol, left |-> left, right |-> right, context |-> context,
                       result |-> result]
    /\ UNCHANGED <<ctx, gens, event, heap, dicts, lastOp, bld, prd, sch, cnt>>

\* intersect or except was evaluated on two sequences of nodes
NodeSetOperation ==
    /\ evl # <<>> /\ evl.op \in {"intersect", "except"} /\ ~evl.context.none
    /\ \A x \in SeqSet(evl.left) \cup SeqSet(evl.right) : IsNode(x)

\* C15: A intersect B yields exactly the nodes that occur in both operands
\* and A except B exactly the nodes of A that do not occur in B, each node
\* once however often it occurs in an operand, in ascending position order.
C15_IntersectExceptSorted ==
    NodeSetOperation =>
        LET A == SeqSet(evl.left)
            B == SeqSet(evl.right)
            r == evl.result.items
        IN  /\ evl.result.code = ""
            /\ SeqSet(r) = (IF evl.op = "except" THEN A \ B ELSE A \cap B)
            /\ \A i, j \in 1..Len(r) : i # j => r[i] # r[j]
            /\ \A i, j \in 1..Len(r) : i < j => Pos[r[i]] <= Pos[r[j]]

\* an operand held a node twice and its nodes against the document order
C15_Witness ==
    /\ NodeSetOperation /\ evl.op = "except"
    /\ evl.left = <<8, 3>> /\ evl.right = <<6, 6>>
    /\ evl.result.items = <<3, 8>>

(***************************************************************************)
(* instance of.  An item of the operand is given by whether it matches the *)
(* item type of the sequence type.                                         *)
(***************************************************************************)
MaxItems == 2

\* the operand: for each item whether it is an instance of the item type
ItemSequences == UNION {[1..n -> BOOLEAN] : n \in 0..MaxItems}

Occurrences == {"", "?", "*", "+"}

\* the sequence type: its label, its occurrence indicator and, for an atomic
\* type, whether its prefix and its name are known
SequenceTypes ==
    {[label |-> l, occurs |-> o, name |-> "known"] :
        l \in {"kind test", "function test", "sequence type", "atomic"}, o \in Occurrences}
    \cup {[label |-> "atomic", occurs |-> o, name |-> n] :
            o \in Occurrences, n \in {"unknown prefix", "unknown type"}}
    \cup {[label |-> "empty-sequence", occurs |-> "", name |-> "known"]}

RECURSIVE KindTestLoop(_, _, _)
\* for position, context.item in enumerate(self[0].select(context)), the
\* branch of kind tests, sequence types and function tests; k is the number
\* of items taken so far
KindTestLoop(items, k, occurs) ==
    IF k = Len(items) THEN BoolValue(k > 0 \/ occurs \in {"*", "?"})
    ELSE IF ~items[k + 1] THEN BoolValue(occurs \in {"*", "?"})
    ELSE IF k > 0 /\ occurs \in {"", "?"} THEN "false"
    ELSE KindTestLoop(items, k + 1, occurs)

RECURSIVE AtomicTypeLoop(_, _, _, _)
\* for position, item in enumerate(self[0].select(context)), the branch of
\* atomic type names
AtomicTypeLoop(items, k, occurs, name) ==
    IF k = Len(items) THEN BoolValue(k > 0 \/ occurs \in {"*", "?"})
    ELSE IF name = "unknown type" THEN "XPST0051"
    ELSE IF ~items[k + 1] THEN "false"
    ELSE IF k > 0 /\ occurs \in {"", "?"} THEN "false"
    ELSE AtomicTypeLoop(items, k + 1, occurs, name)

evaluate_instance_expression(items, type, context) ==
    IF type.label = "empty-sequence" THEN BoolValue(items = <<>>)
    ELSE IF type.label \in {"kind test", "sequence type", "function test"}
         THEN IF context.none THEN "MissingContext"
              ELSE KindTestLoop(items, 0, type.occurs)
    ELSE IF type.name = "unknown prefix" THEN "XPST0081"
    ELSE AtomicTypeLoop(items, 0, type.occurs, type.name)

InstanceOf ==
    /\ Ready
    /\ \E items \in ItemSequences, type \in SequenceTypes,
          context \in {NoContext, [NoContext EXCEPT !.root = 1, !.none = FALSE]} :
           evl' = [op |-> "instance", items |-> items, type |-> type, context |-> context,
                   result |-> evaluate_instance_expression(items, type, context)]
    /\ UNCHANGED <<ctx, gens, event, heap, dicts, lastOp, bld, prd, sch, cnt>>

\* the number of items fits the occurrence indicator
Fits(n, occurs) ==
    CASE occurs = "" -> n = 1
      [] occurs = "?" -> n <= 1
      [] occurs = "*" -> TRUE
      [] occurs = "+" -> n >= 1

\* instance of was evaluated with a context against a known item type
InstanceEvaluated ==
    /\ evl # <<>> /\ evl.op = "instance" /\ ~evl.context.none
    /\ evl.type.label # "empty-sequence" /\ evl.type.name = "known"

\* C16: E instance of T occ is true iff every item of E matches the item
\* type T and the number of items fits the occurrence indicator (none: one;
\* ?: at most one; *: any; +: at least one), in the kind-test branch as in
\* the atomic-type branch.
C16_InstanceOfMatchesAll ==
    InstanceEvaluated =>
        evl.result = BoolValue(/\ \A i \in 1..Len(evl.items) : evl.items[i]
                               /\ Fits(Len(evl.items), evl.type.occurs))

(***************************************************************************)
(* cast as and castable as.  The operand is given by the number of its     *)
(* items and by what the constructor of the target type does with its      *)
(* single item.                                                            *)
(***************************************************************************)
\* the target types: xsd, a constructor of the XSD namespace; schema, a type
\* of the schema bound to the parser; the others fail a static check
TargetTypes ==
    {"xsd", "schema", "unknown prefix", "notation", "not in schema", "no constructor",
     "not a constructor"}

\* token.cast(arg) and schema.cast_as(...): a value or the error raised
CastOutcomes == {"value", "ElementPathError", "TypeError", "ValueError"}

CastInputs ==
    [type : TargetTypes, occurrence : {"", "?"}, items : 0..MaxItems,
     outcome : CastOutcomes, string : BOOLEAN, qname : BOOLEAN, schema : BOOLEAN]

OnCastErrorRaise(symbol, code, schema) == IF schema THEN "1" ELSE code

\* the except clauses: if self.symbol != 'cast': return False; elif
\* isinstance(context, XPathSchemaContext): return UntypedAtomic('1'); raise
OnCastError(symbol, code, schema) ==
    IF symbol # "cast" THEN "false"
    ELSE IF schema THEN "1"
    ELSE code

\* in.qname: the target is xs:QName and the operand is neither a QName nor a
\* string literal (XPath 2.0)
evaluate_cast_expressions(symbol, in) ==
    IF in.type = "unknown prefix" THEN "XPST0081"
    ELSE IF in.type = "notation" THEN "XPST0080"
    ELSE IF in.type = "not in schema" THEN "XPST0051"
    ELSE IF in.items > 1 THEN (IF symbol # "cast" THEN "false" ELSE "XPTY0004")
    ELSE IF in.items = 0
         THEN IF in.occurrence = "?" THEN (IF symbol = "cast" THEN "empty" ELSE "true")
              ELSE IF symbol # "cast" THEN "false"
              ELSE "XPTY0004"
    ELSE IF in.type \in {"no constructor", "not a constructor"}
         THEN OnCastError(symbol, "XPST0051", in.schema)
    ELSE IF in.type = "xsd" /\ in.qname THEN OnCastError(symbol, "XPTY0004", in.schema)
    ELSE IF in.outcome = "ElementPathError"
         THEN OnCastError(symbol, "ElementPathError", in.schema)
    ELSE IF in.outcome \in {"TypeError", "ValueError"}
         THEN OnCastError(symbol, IF in.string THEN "FORG0001" ELSE "XPTY0004", in.schema)
    ELSE IF symbol = "cast" THEN "value" ELSE "true"

\* X castable as T and X cast as T are evaluated on the same context
CastExpressions ==
    /\ Ready
    /\ \E in \in CastInputs :
           evl' = [op |-> "cast", in |-> in,
                   castable |-> evaluate_cast_expressions("castable", in),
                   cast |-> evaluate_cast_expressions("cast", in)]
    /\ UNCHANGED <<ctx, gens, event, heap, dicts, lastOp, bld, prd, sch, cnt>>

\* a cast to a known target type in a non-schema context
KnownCast ==
    /\ evl # <<>> /\ evl.op = "cast"
    /\ evl.in.type \in {"xsd", "schema"} /\ ~evl.in.schema

\* C17: in a non-schema context and for a known target type, X castable as T
\* raises nothing: it is false exactly when X cast as T raises (cast error,
\* more than one item, empty operand without ?) and true exactly when
\* X cast as T returns a value or the empty sequence.
C17_CastableMirrorsCast ==
    KnownCast =>
        /\ evl.castable \in {"true", "false"}
        /\ evl.castable = "true" <=> evl.cast \in {"value", "empty"}
        /\ evl.castable = "false" <=> evl.cast \in {"XPTY0004", "FORG0001", "ElementPathError"}

\* the constructor failed on the single item of the operand
C17_Witness ==
    /\ KnownCast /\ evl.in.items = 1 /\ evl.in.outcome = "ValueError"
    /\ evl.castable = "false" /\ evl.cast = "FORG0001"

(***************************************************************************)
(* XPath1Parser.parse: the static checks on the parsed expression.         *)
(***************************************************************************)
\* what an evaluation pass raises, if anything
PassErrors == {"", "MissingContextError", "ElementPathTypeError", "ElementPathValueError"}

\* the source by what parsing it gives: a syntax error of super().parse, the
\* label of the root token, what the evaluation without context raises and
\* what the selection on the schema context raises; and whether a schema is
\* bound to the parser
ParseInputs ==
    [syntax : {"", "XPST0003"}, label : {"operator", "sequence type", "function test"},
     trial : PassErrors, schema : BOOLEAN, pass : PassErrors]

SwallowedNever(error) == FALSE

\* except MissingContextError: pass
Swallowed(error) == error = "MissingContextError"

parse(in) ==
    IF in.syntax # "" THEN in.syntax
    ELSE IF in.label \in {"sequence type", "function test"} THEN "XPST0003"
    ELSE IF in.trial # "" /\ ~Swallowed(in.trial) THEN in.trial
    ELSE IF in.schema /\ in.pass # "" THEN in.pass
    ELSE "root_token"

Parse ==
    /\ Ready
    /\ \E in \in ParseInputs : evl' = [op |-> "parse", in |-> in, result |-> parse(in)]
    /\ UNCHANGED <<ctx, gens, event, heap, dicts, lastOp, bld, prd, sch, cnt>>

\* parse came to its static checks
StaticChecks ==
    /\ evl # <<>> /\ evl.op = "parse"
    /\ evl.in.syntax = "" /\ evl.in.label = "operator"

\* C18 (as amended): a missing-context error raised by the context-free
\* trial evaluation is swallowed; every other error of the trial evaluation
\* and every error of the schema-aware pass (run when a schema is bound),
\* a missing-context error included, propagates to the caller of parse;
\* without a propagated error parse returns the root token.
C18_TrialSwallowsMissingContext ==
    StaticChecks =>
        evl.result =
            (IF evl.in.trial \notin {"", "MissingContextError"} THEN evl.in.trial
             ELSE IF evl.in.schema /\ evl.in.pass # "" THEN evl.in.pass
             ELSE "root_token")

\* the trial evaluation raised a missing-context error, the schema pass nothing
C18_Witness ==
    /\ StaticChecks /\ evl.in.trial = "MissingContextError"
    /\ evl.in.schema /\ evl.in.pass = "" /\ evl.result = "root_token"

\* C18 (as claimed): a missing-context error of the trial evaluation or of
\* the schema-aware pass is swallowed and parse returns the root token; every
\* other error of either pass propagates.
C18_BothPassesSwallowMissingContext ==
    StaticChecks =>
        evl.result =
            (IF evl.in.trial \notin {"", "MissingContextError"} THEN evl.in.trial
             ELSE IF evl.in.schema /\ evl.in.pass \notin {"", "MissingContextError"}
                  THEN evl.in.pass
             ELSE "root_token")

\* ---------------------------------------------------------------------
\* Variable references: evaluate_variable_reference of the '$' token.
\* ---------------------------------------------------------------------

\* the names a reference can carry: unprefixed, with a declared prefix, and
\* with a prefix that parser.namespaces does not hold
VarRefNames == {"a", "p:b", "q:c"}

\* get_expanded_name(varname, namespaces): raises KeyError for a prefix
\* that is not declared
PrefixKnown(qname) == qname # "q:c"

\* a value of the evaluation: a sequence, a single item, Python's None, or
\* the UntypedAtomic('1') placeholder
Sequence(items) == [form |-> "sequence", items |-> items]
SingleItem(item) == [form |-> "item", items |-> <<item>>]
None == [form |-> "None", items |-> <<>>]
UntypedAtomicOne == [form |-> "UntypedAtomic('1')", items |-> <<>>]

\* the values a variable can be bound to
BoundValues == {Sequence(<<>>), Sequence(<<1, 2>>), None}

\* context.variables of the evaluation: a mapping of some of the names
VariableMaps ==
    UNION {[names -> BoundValues] : names \in SUBSET VarRefNames}

\* parser.variable_types: None, or a mapping from names to sequence types
\* (a type name and an occurrence indicator)
SequenceTypeNames == {"p:int", "q:int", "element()"}

VariableTypes ==
    {[none |-> n, types |-> t] :
        n \in BOOLEAN,
        t \in UNION {[names -> {[name |-> s, occurs |-> o] :
                                   s \in SequenceTypeNames, o \in {"", "*"}}] :
                        names \in {{}, {"a"}, {"p:b"}}}}

\* QName.pattern.match(sequence_type): a kind test is not a QName
IsQName(name) == name # "element()"

\* get_atomic_sequence(xsd_type): the sample values of a schema type; a
\* single value is returned unwrapped
AtomicSequences == {<<>>, <<1>>, <<1, 2>>}

IsSchemaContextNever(context) == FALSE

\* isinstance(context, XPathSchemaContext)
IsSchemaContext(context) == context.kind = "schema"

VarContexts == {"none", "dynamic", "schema"}

\* the placeholder a schema context gives an unbound variable
SchemaPlaceholder(varname, types, hasSchema, atomic) ==
    IF types.none \/ varname \notin DOMAIN types.types
    THEN Value(Sequence(<<>>))
    ELSE IF /\ IsQName(types.types[varname].name)
            /\ PrefixKnown(types.types[varname].name)
            /\ hasSchema
         THEN Value(IF Len(atomic) = 1 THEN SingleItem(atomic[1]) ELSE Sequence(atomic))
         ELSE Value(UntypedAtomicOne)

evaluate_variable_reference(varname, context, types, hasSchema, atomic) ==
    IF context.kind = "none" THEN Error("MissingContext")
    ELSE IF ~PrefixKnown(varname) THEN Error("XPST0081")
    ELSE IF varname \in DOMAIN context.variables
    THEN Value(IF context.variables[varname] # None
               THEN context.variables[varname] ELSE Sequence(<<>>))
    ELSE IF IsSchemaContext(context)
    THEN SchemaPlaceholder(varname, types, hasSchema, atomic)
    ELSE Error("XPST0008")

VariableReference ==
    /\ Ready
    /\ \E varname \in VarRefNames, kind \in VarContexts, variables \in VariableMaps,
          types \in VariableTypes, hasSchema \in BOOLEAN, atomic \in AtomicSequences :
           LET context == [kind |-> kind, variables |-> variables]
           IN evl' = [op |-> "$", varname |-> varname, context |-> context,
                      types |-> types,
                      result |-> evaluate_variable_reference(varname, context, types,
                                                             hasSchema, atomic)]
    /\ UNCHANGED <<ctx, gens, event, heap, dicts, lastOp, bld, prd, sch, cnt>>

VariableEvaluated == evl # <<>> /\ evl.op = "$"

NameUnbound == evl.varname \notin DOMAIN evl.context.variables

\* C21 (as evaluated): with no context the reference raises the
\* missing-context error; a name with an undeclared prefix raises XPST0081;
\* a bound name returns its sequence (the empty sequence for None); an
\* unbound name raises XPST0008 in a dynamic context, while a schema
\* context never raises for it and returns a placeholder value.
C21_UnboundRaisesInDynamicContext ==
    VariableEvaluated =>
        IF evl.context.kind = "none" THEN evl.result.code = "MissingContext"
        ELSE IF ~PrefixKnown(evl.varname) THEN evl.result.code = "XPST0081"
        ELSE IF ~NameUnbound
        THEN evl.result = Value(IF evl.context.variables[evl.varname] = None
                                THEN Sequence(<<>>)
                                ELSE evl.context.variables[evl.varname])
        ELSE IF evl.context.kind = "dynamic" THEN evl.result.code = "XPST0008"
        ELSE /\ evl.result.code = ""
             /\ (evl.types.none => evl.result = Value(Sequence(<<>>)))

C21_Witness ==
    /\ VariableEvaluated
    /\ NameUnbound
    /\ evl.varname = "a"
    /\ evl.context.kind = "schema"
    /\ DOMAIN evl.context.variables # {}
    /\ evl.result = Value(UntypedAtomicOne)

\* C21 (as stated): an unbound name raises XPST0008 for every kind of
\* context.
C21_UnboundRaisesEverywhere ==
    (VariableEvaluated /\ evl.context.kind # "none" /\ NameUnbound) =>
        evl.result.code = "XPST0008"

InitEval ==
    /\ evl = [op |-> "idle"]
    /\ IdleAxis /\ IdleCopy /\ IdleBuild /\ IdleProduct
    /\ IdleSchema /\ IdleCounter

NextEval ==
    \/ NodeComparison
    \/ Idiv
    \/ CompareValues
    \/ IntersectExcept
    \/ InstanceOf
    \/ CastExpressions
    \/ Parse
    \/ VariableReference

SpecEval == InitEval /\ [][NextEval]_vars

(***************************************************************************)
(* The schema tree builder: build_schema_node_tree.  A schema is a graph   *)
(* of element declarations; declaration 0 stands for the schema itself.    *)
(* Nodes and children lists are objects, identified by their index, so     *)
(* that two nodes can hold the same list.                                  *)
(***************************************************************************)

Decls == 1..3
TheSchema == 0
MaxContent == 2
MaxDescents == 8

RECURSIVE Ascending(_, _)
\* the nondecreasing sequences over from..3 of length up to n
Ascending(from, n) ==
    IF n = 0 THEN {<<>>}
    ELSE {<<>>} \cup UNION {{<<d>> \o s : s \in Ascending(d, n - 1)} : d \in from..3}

\* what a local declaration holds: nothing, a global, itself
LocalContents == {<<>>, <<1>>, <<3>>}

\* the schemas: decl 1 is a global declaration, decl 2 is a global that is
\* either of the schema's own maps or of another schema, decl 3 is a local
\* declaration or a reference to a global; content[d] is what iter(d) gives
SchemaGraphs ==
    UNION {{[ref |-> [d \in Decls |-> IF d = 3 THEN r ELSE 0],
             content |-> [d \in Decls |-> IF d = 1 THEN c1 ELSE IF d = 2 THEN c2 ELSE c3],
             globals |-> g] :
               c1 \in Ascending(1, MaxContent), c2 \in Ascending(1, MaxContent),
               c3 \in IF r = 0 THEN LocalContents ELSE {<<>>},
               g \in {<<1, 2>>, <<1>>}} :
           r \in {0, 1, 2}}

\* is_schema(root)
is_schema(root) == root = TheSchema

\* iter(root) / iter(elem) / the schema's own global declarations
Kids(graph, s) == IF is_schema(s) THEN graph.globals ELSE graph.content[s]

\* ns_pos_offset + len(elem.attrib) for declarations without namespaces
\* and attributes
PositionStep == 2

\* SchemaElementNode(elem, parent, position): a node with a list of its own
\* for its children, appended to its parent's children
NewSchemaNode(s, elem, parent, position) ==
    LET list == Len(s.lists) + 1
        node == Len(s.nodes) + 1
        lists0 == Append(s.lists, <<>>)
    IN [s EXCEPT
          !.nodes = Append(@, [elem |-> elem, parent |-> parent, position |-> position,
                               children |-> list, ref |-> 0, call |-> s.calls]),
          !.lists = IF parent = 0 THEN lists0
                    ELSE [lists0 EXCEPT ![s.nodes[parent].children] = Append(@, node)]]

\* the statements of a call before its loop; globalList = 0 is
\* global_elements=None
Prologue(s0, root, globalList) ==
    LET s == NewSchemaNode([s0 EXCEPT !.calls = @ + 1], root, 0, 1)
        root_node == Len(s.nodes)
        own == s.nodes[root_node].children
        fresh == Len(s.lists) + 1
        global_elements ==
            IF globalList # 0 THEN globalList
            ELSE IF is_schema(root) THEN own ELSE fresh
        lists1 == IF globalList = 0 /\ ~is_schema(root) THEN Append(s.lists, <<>>)
                  ELSE s.lists
        lists2 == IF globalList # 0
                  THEN [lists1 EXCEPT ![globalList] = Append(@, root_node)]
                  ELSE lists1
    IN [s EXCEPT
          !.lists = lists2,
          !.stack = Append(@, [call |-> s.calls, root |-> root, root_node |-> root_node,
                               position |-> 1 + PositionStep,
                               global_elements |-> global_elements,
                               local_nodes |-> [e \in {root} |-> root_node],
                               ref_nodes |-> <<>>,
                               children |-> [of |-> root, next |-> 1],
                               iterators |-> <<>>, ancestors |-> <<>>,
                               parent |-> root_node,
                               phase |-> "build", link |-> 1])]

Top == sch.stack[Len(sch.stack)]
Running == sch # <<>> /\ sch.stack # <<>>
SetTop(s, f) == [s EXCEPT !.stack[Len(s.stack)] = f]

Building == Running /\ Top.phase = "build"
HasNext == Top.children.next <= Len(Kids(sch.graph, Top.children.of))
NextElem == Kids(sch.graph, Top.children.of)[Top.children.next]

VisitedNever(f, elem) == FALSE

\* elem in local_nodes
Visited(f, elem) == elem \in DOMAIN f.local_nodes

Advance(f) == [f EXCEPT !.children.next = @ + 1, !.position = @ + PositionStep]

\* elem in local_nodes and elem.ref is None:
\*     child.children = local_nodes[elem].children
ShareChildren ==
    /\ Building /\ HasNext
    /\ Visited(Top, NextElem) /\ sch.graph.ref[NextElem] = 0
    /\ LET s == NewSchemaNode(sch, NextElem, Top.parent, Top.position)
           child == Len(s.nodes)
       IN sch' = SetTop([s EXCEPT !.nodes[child].children =
                                     s.nodes[Top.local_nodes[NextElem]].children],
                        Advance(Top))
    /\ UNCHANGED <<ctx, gens, event, heap, dicts, lastOp, bld, prd, evl, cnt>>

\* elem.ref is not None: ref_nodes.append(child), in both branches
AppendReference ==
    /\ Building /\ HasNext
    /\ sch.graph.ref[NextElem] # 0
    /\ LET s == NewSchemaNode(sch, NextElem, Top.parent, Top.position)
           child == Len(s.nodes)
           f == [Advance(Top) EXCEPT
                   !.ref_nodes = Append(@, child),
                   !.local_nodes = IF Visited(Top, NextElem) THEN @
                                   ELSE [e \in DOMAIN @ \cup {NextElem} |->
                                            IF e = NextElem THEN child ELSE @[e]]]
       IN sch' = SetTop(s, f)
    /\ UNCHANGED <<ctx, gens, event, heap, dicts, lastOp, bld, prd, evl, cnt>>

\* a new declaration that is no reference: descend into it
Descend ==
    /\ Building /\ HasNext
    /\ ~Visited(Top, NextElem) /\ sch.graph.ref[NextElem] = 0
    /\ Len(sch.descents) < MaxDescents
    /\ LET s == NewSchemaNode(sch, NextElem, Top.parent, Top.position)
           child == Len(s.nodes)
           f == [Top EXCEPT
                   !.position = @ + PositionStep,
                   !.local_nodes = [e \in DOMAIN @ \cup {NextElem} |->
                                       IF e = NextElem THEN child ELSE @[e]],
                   !.ancestors = Append(@, Top.parent),
                   !.parent = child,
                   !.iterators = Append(@, [of |-> Top.children.of,
                                            next |-> Top.children.next + 1]),
                   !.children = [of |-> NextElem, next |-> 1]]
       IN sch' = SetTop([s EXCEPT !.descents = Append(@, <<Top.call, NextElem>>)], f)
    /\ UNCHANGED <<ctx, gens, event, heap, dicts, lastOp, bld, prd, evl, cnt>>

\* the iterator is exhausted: children, parent = iterators.pop(), ancestors.pop()
Ascend ==
    /\ Building /\ ~HasNext
    /\ Top.iterators # <<>>
    /\ LET n == Len(Top.iterators)
       IN sch' = SetTop(sch, [Top EXCEPT
                                !.children = Top.iterators[n],
                                !.parent = Top.ancestors[n],
                                !.iterators = SubSeq(@, 1, n - 1),
                                !.ancestors = SubSeq(@, 1, n - 1)])
    /\ UNCHANGED <<ctx, gens, event, heap, dicts, lastOp, bld, prd, evl, cnt>>

\* IndexError: the local traversal is complete, the references are connected
StartLinking ==
    /\ Building /\ ~HasNext
    /\ Top.iterators = <<>>
    /\ sch' = SetTop(sch, [Top EXCEPT !.phase = "link"])
    /\ UNCHANGED <<ctx, gens, event, heap, dicts, lastOp, bld, prd, evl, cnt>>

Linking == Running /\ Top.phase = "link"
ElementNode == Top.ref_nodes[Top.link]
\* elem.ref of the declaration a node wraps; 0 is None
RefOf(node) ==
    IF is_schema(sch.nodes[node].elem) THEN 0 ELSE sch.graph.ref[sch.nodes[node].elem]

OthersAny(list, ref) == 1..Len(sch.lists[list])

\* for other in global_elements: if other.elem is ref
Others(list, ref) ==
    {i \in 1..Len(sch.lists[list]) : sch.nodes[sch.lists[list][i]].elem = ref}

FirstOther(list, ref) ==
    sch.lists[list][CHOOSE i \in Others(list, ref) : \A j \in Others(list, ref) : i <= j]

\* the assignment to element_node.ref, with the state of the traversal of
\* the call that owns the node
Resolve(s, node, other, owner) ==
    [s EXCEPT !.nodes[node].ref = other,
              !.resolved = Append(@, [node |-> node, other |-> other,
                                      phase |-> owner.phase,
                                      pending |-> Len(owner.iterators),
                                      left |-> Len(Kids(s.graph, owner.children.of))
                                               + 1 - owner.children.next])]

\* element_node.ref = other
LinkGlobal ==
    /\ Linking /\ Top.link <= Len(Top.ref_nodes)
    /\ Others(Top.global_elements, RefOf(ElementNode)) # {}
    /\ sch' = SetTop(Resolve(sch, ElementNode,
                             FirstOther(Top.global_elements, RefOf(ElementNode)), Top),
                     [Top EXCEPT !.link = @ + 1])
    /\ UNCHANGED <<ctx, gens, event, heap, dicts, lastOp, bld, prd, evl, cnt>>

\* element_node.ref = build_schema_node_tree(ref, ..., global_elements): the
\* call is entered
BuildGlobal ==
    /\ Linking /\ Top.link <= Len(Top.ref_nodes)
    /\ Others(Top.global_elements, RefOf(ElementNode)) = {}
    /\ sch' = Prologue(sch, RefOf(ElementNode), Top.global_elements)
    /\ UNCHANGED <<ctx, gens, event, heap, dicts, lastOp, bld, prd, evl, cnt>>

\* return root_node, to the caller's assignment or to the user
ReturnRoot ==
    /\ Linking /\ Top.link > Len(Top.ref_nodes)
    /\ LET n == Len(sch.stack)
           popped == [sch EXCEPT !.stack = SubSeq(@, 1, n - 1),
                                 !.returned = Append(@, Top.call)]
       IN IF n = 1 THEN sch' = [popped EXCEPT !.result = Top.root_node,
                                           !.shared = Top.global_elements]
          ELSE LET caller == sch.stack[n - 1]
               IN sch' = SetTop(Resolve(popped, caller.ref_nodes[caller.link],
                                        Top.root_node, caller),
                                [caller EXCEPT !.link = @ + 1])
    /\ UNCHANGED <<ctx, gens, event, heap, dicts, lastOp, bld, prd, evl, cnt>>

Roots == {TheSchema, 1, 2}

InitSchema ==
    /\ \E graph \in SchemaGraphs, root \in Roots :
           sch = Prologue([graph |-> graph, nodes |-> <<>>, lists |-> <<>>, stack |-> <<>>,
                           calls |-> 0, descents |-> <<>>, resolved |-> <<>>,
                           returned |-> <<>>, result |-> 0, shared |-> 0],
                          root, 0)
    /\ IdleAxis /\ IdleCopy /\ IdleBuild /\ IdleProduct /\ IdleEval /\ IdleCounter

NextSchema ==
    \/ ShareChildren
    \/ AppendReference
    \/ Descend
    \/ Ascend
    \/ StartLinking
    \/ LinkGlobal
    \/ BuildGlobal
    \/ ReturnRoot

SpecSchema == InitSchema /\ [][NextSchema]_vars

\* the builder is a sequential program: it always takes its next step
SpecSchemaRun == SpecSchema /\ WF_vars(NextSchema)

SchemaBuilt == sch # <<>> /\ sch.result # 0

\* the nodes of one call that wrap the same declaration, which is no
\* reference
SameDeclaration(n1, n2) ==
    /\ n1 < n2
    /\ sch.nodes[n1].call = sch.nodes[n2].call
    /\ sch.nodes[n1].elem = sch.nodes[n2].elem
    /\ RefOf(n1) = 0

DescendedOnce ==
    sch # <<>> =>
        /\ \A i, j \in 1..Len(sch.descents) : sch.descents[i] = sch.descents[j] => i = j
        /\ \A i \in 1..Len(sch.descents) : sch.graph.ref[sch.descents[i][2]] = 0
        /\ Len(sch.descents) < MaxDescents

ChildrenShared ==
    sch # <<>> =>
        \A n1, n2 \in 1..Len(sch.nodes) :
            SameDeclaration(n1, n2) =>
                sch.nodes[n2].children = sch.nodes[n1].children

\* C22: within one call every declaration that is no reference is
\* descended into at most once, a later node of an already visited
\* declaration holds the children list of the first one, and every build
\* returns its root node.
C22_SchemaBuildTerminates ==
    /\ [](DescendedOnce /\ ChildrenShared)
    /\ <>SchemaBuilt

C22_Witness ==
    /\ SchemaBuilt
    /\ sch.graph.content[1] = <<1, 2>>
    /\ sch.graph.content[2] = <<1, 3>>
    /\ sch.graph.ref[3] = 2
    /\ \E n1, n2 \in 1..Len(sch.nodes) :
           /\ SameDeclaration(n1, n2)
           /\ sch.nodes[n1].elem = 1
           /\ sch.lists[sch.nodes[n2].children] # <<>>
    /\ Len(sch.returned) > 1

RefNodes == {n \in 1..Len(sch.nodes) : RefOf(n) # 0}
CallReturned(call) == \E i \in 1..Len(sch.returned) : sch.returned[i] = call
InList(list, node) == \E i \in 1..Len(sch.lists[list]) : sch.lists[list][i] = node

Linked(n) ==
    /\ sch.nodes[n].ref # 0
    /\ sch.nodes[sch.nodes[n].ref].elem = RefOf(n)

BuiltForReference ==
    /\ SchemaBuilt
    /\ \E n \in RefNodes : sch.nodes[sch.nodes[n].ref].call # sch.nodes[n].call

(***************************************************************************)
(* Identity counters of a validation: IdentityCounter and KeyrefCounter    *)
(* count the field tuples collected for a key, unique or keyref.           *)
(***************************************************************************)
MaxCount == 3

\* the field tuples of an identity with one field; 0 is None
FieldTuples == {<<0>>, <<1>>, <<2>>}

CounterClasses == {"IdentityCounter", "KeyrefCounter"}

\* Counter(): every tuple counts 0
NoCounts == [f \in FieldTuples |-> 0]

NoCall == [op |-> "none", fields |-> <<0>>, before |-> 0, raised |-> FALSE,
           reported |-> FALSE]

RaisesFromTwo(count) == count >= 2

\* if self.counter[fields] == 2: raise XMLSchemaValueError(...)
Raises(count) == count = 2

\* IdentityCounter.increase / KeyrefCounter.increase: the counter after the
\* call and whether the call raised
increase(c, fields) ==
    LET counter == [c.counter EXCEPT ![fields] = @ + 1]
    IN [counter |-> counter,
        raised |-> c.class = "IdentityCounter" /\ Raises(counter[fields])]

CanCount == cnt # <<>> /\ \A f \in FieldTuples : cnt.counter[f] < MaxCount

\* counter.increase(fields), called on an IdentityCounter
Increase ==
    /\ CanCount
    /\ cnt.class = "IdentityCounter"
    /\ \E fields \in FieldTuples :
           LET r == increase(cnt, fields)
           IN cnt' = [cnt EXCEPT !.counter = r.counter,
                                 !.last = [op |-> "increase", fields |-> fields,
                                           before |-> cnt.counter[fields],
                                           raised |-> r.raised, reported |-> FALSE]]
    /\ UNCHANGED <<ctx, gens, event, heap, dicts, lastOp, bld, prd, evl, sch>>

\* counter.increase(fields), called on a KeyrefCounter
KeyrefIncrease ==
    /\ CanCount
    /\ cnt.class = "KeyrefCounter"
    /\ \E fields \in FieldTuples :
           LET r == increase(cnt, fields)
           IN cnt' = [cnt EXCEPT !.counter = r.counter,
                                 !.last = [op |-> "increase", fields |-> fields,
                                           before |-> cnt.counter[fields],
                                           raised |-> r.raised, reported |-> FALSE]]
    /\ UNCHANGED <<ctx, gens, event, heap, dicts, lastOp, bld, prd, evl, sch>>

\* XsdElement.collect_key_fields for one identity: an enabled counter counts
\* the tuple unless all its fields are None and the element is not nilled;
\* a ValueError of increase becomes a validation error
CollectKeyFields ==
    /\ CanCount
    /\ \E fields \in FieldTuples, nilled \in BOOLEAN :
           IF cnt.enabled /\ (fields # <<0>> \/ nilled)
           THEN LET r == increase(cnt, fields)
                IN cnt' = [cnt EXCEPT !.counter = r.counter,
                                      !.last = [op |-> "collect", fields |-> fields,
                                                before |-> cnt.counter[fields],
                                                raised |-> FALSE, reported |-> r.raised]]
           ELSE cnt' = [cnt EXCEPT !.last = [op |-> "skipped", fields |-> fields,
                                             before |-> cnt.counter[fields],
                                             raised |-> FALSE, reported |-> FALSE]]
    /\ UNCHANGED <<ctx, gens, event, heap, dicts, lastOp, bld, prd, evl, sch>>

\* counter.enabled = False, at the end of the element that holds the identity
Disable ==
    /\ cnt # <<>>
    /\ cnt.enabled
    /\ cnt' = [cnt EXCEPT !.enabled = FALSE, !.last = [NoCall EXCEPT !.op = "disable"]]
    /\ UNCHANGED <<ctx, gens, event, heap, dicts, lastOp, bld, prd, evl, sch>>

\* IdentityCounter.reset(elem)
Reset ==
    /\ cnt # <<>>
    /\ cnt' = [cnt EXCEPT !.counter = NoCounts, !.enabled = TRUE,
                          !.last = [NoCall EXCEPT !.op = "reset"]]
    /\ UNCHANGED <<ctx, gens, event, heap, dicts, lastOp, bld, prd, evl, sch>>

\* IdentityCounter.__init__ / KeyrefCounter.__init__
InitCounter ==
    /\ \E class \in CounterClasses :
           cnt = [class |-> class, counter |-> NoCounts, enabled |-> TRUE, last |-> NoCall]
    /\ IdleAxis /\ IdleCopy /\ IdleBuild /\ IdleProduct /\ IdleEval /\ IdleSchema

NextCounter ==
    \/ Increase
    \/ KeyrefIncrease
    \/ CollectKeyFields
    \/ Disable
    \/ Reset

SpecCounter == InitCounter /\ [][NextCounter]_vars

Counted == cnt # <<>> /\ cnt.last.op \in {"increase", "collect"}

\* C30: an increase of an IdentityCounter raises exactly when it brings the
\* count of its tuple from 1 to 2, and counts also when it raises (through
\* collect_key_fields the error is reported instead); an increase of a
\* KeyrefCounter never raises; after reset all counts are 0 and the counter
\* is enabled.
C30_RaisesOnSecondOccurrence ==
    /\ Counted =>
           /\ cnt.counter[cnt.last.fields] = cnt.last.before + 1
           /\ (cnt.last.raised \/ cnt.last.reported) <=>
                  (cnt.class = "IdentityCounter" /\ cnt.last.before = 1)
           /\ cnt.last.raised => cnt.last.op = "increase"
    /\ (cnt # <<>> /\ cnt.last.op = "reset") => cnt.counter = NoCounts /\ cnt.enabled

\* the third occurrence of a tuple has been counted without an error
C30_Witness ==
    /\ Counted
    /\ cnt.class = "IdentityCounter"
    /\ cnt.last.op = "increase"
    /\ cnt.last.before = 2
    /\ cnt.counter[cnt.last.fields] = 3
    /\ ~cnt.last.raised

====
